---- MODULE Spec2Model ----
(***************************************************************************)
(* Model of the umongo object-document mapper bundled with the repository: *)
(* the builder (schema and index derivation), the data proxy (values,      *)
(* modified markers, partial loads) and the commit/delete protocol of the  *)
(* three driver adapters (pymongo, motor_asyncio, txmongo) against a       *)
(* single collection of a MongoDB-like store.                              *)
(*                                                                         *)
(* One in-memory document of one document class is followed; the           *)
(* collection keeps what was written.  Every operation is one action and   *)
(* leaves in `last` the branch it took and the error it raised; the        *)
(* operators commit and delete give the whole run of the operation: the    *)
(* ordered log of hooks, validations and storage calls, the filter, the    *)
(* payload and what is left in the document and in the collection.         *)
(***************************************************************************)
EXTENDS Integers, Sequences, FiniteSets, TLC

VARIABLES adapter, cls, data, modified, not_loaded, additional_data, is_created,
          collection, instance, last, steps

vars == <<adapter, cls, data, modified, not_loaded, additional_data, is_created,
          collection, instance, last, steps>>

-----------------------------------------------------------------------------
(* Bounds *)

MaxVal == 2
MaxSteps == 3
MaxProxySteps == 2

-----------------------------------------------------------------------------
(* Values *)

Missing == -1
None == -2
BadValue == -3

Values == 1 .. MaxVal
Ids == Values

Adapters == {"pymongo", "motor_asyncio", "txmongo"}

EmptyMap == [k \in {} |-> 0]

Restrict(f, S) == [k \in (DOMAIN f) \cap S |-> f[k]]

IsPrefix(s, t) == Len(s) <= Len(t) /\ SubSeq(t, 1, Len(s)) = s

-----------------------------------------------------------------------------
(* Fields and templates *)

NoAttr == ""

BaseField(attribute, required, unique, dump_only, default, io_validate) ==
    [attribute |-> attribute, required |-> required, unique |-> unique,
     allow_none |-> FALSE, dump_only |-> dump_only,
     default |-> default, missing |-> default, io_validate |-> io_validate]

\* the field declared with allow_none=True
AllowNone(field) == [field EXCEPT !.allow_none = TRUE]

AttrOrName(field, name) == IF field.attribute = NoAttr THEN name ELSE field.attribute

\* The document classes of the application: their names, bases and declared fields.
TemplateNames == {"Doc", "Renamed", "Parent", "Child", "Media", "Lenient", "Nullable"}

DocClasses == {"Doc", "Renamed", "Child", "Media"}

TemplateBase(t) == IF t = "Child" THEN "Parent" ELSE ""

TemplateAbstract(t) == FALSE

\* Meta.strict of the template
TemplateStrict(t) == t # "Lenient"

ClassName(t) ==
    CASE t = "Doc" -> 101
      [] t = "Renamed" -> 102
      [] t = "Parent" -> 103
      [] t = "Child" -> 104
      [] t = "Media" -> 105
      [] t = "Lenient" -> 106
      [] t = "Animal" -> 107
      [] t = "Dog" -> 108
      [] t = "Cat" -> 109
      [] t = "Puppy" -> 110
      [] t = "Part" -> 111
      [] t = "SubPart" -> 112
      [] t = "Nullable" -> 113

TemplateFields(t) ==
    CASE t = "Doc" ->
            ("name" :> BaseField(NoAttr, TRUE, TRUE, FALSE, Missing, TRUE)) @@
            ("age" :> BaseField(NoAttr, FALSE, FALSE, FALSE, 0, TRUE))
      [] t = "Renamed" ->
            ("name" :> BaseField("n", FALSE, TRUE, FALSE, Missing, TRUE)) @@
            ("age" :> BaseField(NoAttr, FALSE, FALSE, FALSE, 0, TRUE))
      [] t = "Parent" ->
            ("age" :> BaseField(NoAttr, FALSE, FALSE, FALSE, 0, TRUE))
      [] t = "Child" ->
            ("name" :> BaseField(NoAttr, TRUE, TRUE, FALSE, Missing, TRUE))
      [] t = "Media" ->
            ("file_id" :> BaseField("_id", TRUE, FALSE, FALSE, Missing, FALSE)) @@
            ("age" :> BaseField(NoAttr, FALSE, FALSE, FALSE, 0, TRUE))
      [] t = "Lenient" ->
            ("name" :> BaseField(NoAttr, FALSE, FALSE, FALSE, Missing, FALSE))
      [] t = "Nullable" ->
            ("nick" :> AllowNone(BaseField(NoAttr, FALSE, FALSE, FALSE, Missing, FALSE))) @@
            ("code" :> BaseField("c", FALSE, FALSE, FALSE, Missing, FALSE))

FieldOrder == <<"id", "file_id", "name", "age", "nick", "code", "cls">>

-----------------------------------------------------------------------------
(* Builder *)

_is_child(t) == TemplateBase(t) # "" /\ ~TemplateAbstract(TemplateBase(t))

find_id_field(fields) ==
    \E n \in DOMAIN fields :
        (n = "_id" /\ fields[n].attribute = NoAttr) \/ fields[n].attribute = "_id"

on_need_add_id_field(base_fields, fields) ==
    IF find_id_field(base_fields) \/ find_id_field(fields)
    THEN fields
    ELSE ("id" :> BaseField("_id", FALSE, FALSE, TRUE, Missing, FALSE)) @@ fields

add_child_field(t, fields) ==
    ("cls" :> BaseField("_cls", FALSE, FALSE, TRUE, ClassName(t), FALSE)) @@ fields

RECURSIVE build_document_from_template(_)
\* the fields of the schema built for template t: inherited, own, id and cls
build_document_from_template(t) ==
    LET inherited == IF TemplateBase(t) = "" THEN EmptyMap
                     ELSE build_document_from_template(TemplateBase(t))
        with_id == on_need_add_id_field(inherited, TemplateFields(t))
        own == IF _is_child(t) THEN add_child_field(t, with_id) ELSE with_id
    IN  own @@ inherited

\* the fields of a schema in the order the schema keeps them
SchemaOrderOf(fields) == SelectSeq(FieldOrder, LAMBDA n : n \in DOMAIN fields)

parse_index(key, unique, sparse) == [key |-> key, unique |-> unique, sparse |-> sparse]

RECURSIVE FieldIndexes(_, _, _)
\* parse_field over the fields of the schema: one index per unique field
FieldIndexes(t, fields, names) ==
    IF names = <<>> THEN <<>>
    ELSE LET name == Head(names)
             field == fields[name]
             key == IF _is_child(t) THEN <<name, "_cls">> ELSE <<name>>
             own == IF field.unique
                    THEN <<parse_index(key, TRUE, ~field.required \/ field.allow_none)>>
                    ELSE <<>>
         IN  own \o FieldIndexes(t, fields, Tail(names))

RECURSIVE _collect_indexes(_, _)
_collect_indexes(t, fields) ==
    LET parent == IF TemplateBase(t) = "" THEN <<>>
                  ELSE _collect_indexes(TemplateBase(t),
                                        build_document_from_template(TemplateBase(t)))
        child == IF _is_child(t) THEN <<parse_index(<<"_cls">>, FALSE, FALSE)>> ELSE <<>>
    IN  parent \o child \o FieldIndexes(t, fields, SchemaOrderOf(fields))

\* data_proxy_factory: _fields_from_mongo_key, here from storage key to field name
_fields_from_mongo_key(fields) ==
    [k \in {AttrOrName(fields[n], n) : n \in DOMAIN fields} |->
        CHOOSE n \in DOMAIN fields : AttrOrName(fields[n], n) = k]

\* the document class built for template t: its schema, the lookups of its
\* data proxy and its opts.indexes
Implementation(name, fields) ==
    [name |-> name, schema |-> fields, order |-> SchemaOrderOf(fields),
     fields_from_mongo_key |-> _fields_from_mongo_key(fields),
     indexes |-> _collect_indexes(name, fields), strict |-> TemplateStrict(name)]

Implementations ==
    {Implementation(t, build_document_from_template(t)) : t \in DocClasses}

\* the classes whose data proxy is followed alone: those and a non-strict one
ProxyImplementations ==
    Implementations \cup {Implementation(t, build_document_from_template(t)) :
                            t \in {"Lenient", "Nullable"}}

SchemaFields(c) == c.schema

FieldNames(c) == DOMAIN c.schema

SchemaOrder(c) == c.order

MongoName(c, name) == AttrOrName(c.schema[name], name)

MongoKeys(c) == DOMAIN c.fields_from_mongo_key

FieldFromMongoKey(c, k) == c.fields_from_mongo_key[k]

opts_indexes(c) == c.indexes

-----------------------------------------------------------------------------
(* Data proxy *)

\* marshmallow Schema.load(data, partial=True) followed by the unknown-field check
SchemaLoadErrors(t, input) ==
    {n \in DOMAIN input :
        \/ n \notin FieldNames(t)
        \/ SchemaFields(t)[n].dump_only
        \/ input[n] = BadValue
        \/ (input[n] = None /\ ~SchemaFields(t)[n].allow_none)}

SchemaLoad(t, input) ==
    [k \in {MongoName(t, n) : n \in DOMAIN input} |->
        input[CHOOSE n \in DOMAIN input : MongoName(t, n) = k]]

\* an _add_missing_fields that adds nothing
_add_missing_fields_never(t, d) == d

_add_missing_fields(t, d) ==
    [k \in MongoKeys(t) |->
        IF k \in DOMAIN d THEN d[k] ELSE SchemaFields(t)[FieldFromMongoKey(t, k)].missing]

_collect_partial_fields(t, loaded_fields, as_mongo_fields) ==
    IF as_mongo_fields
    THEN {FieldFromMongoKey(t, k) : k \in MongoKeys(t) \ loaded_fields}
    ELSE FieldNames(t) \ loaded_fields

get_modified_fields(t, d, m) == {n \in FieldNames(t) : MongoName(t, n) \in m}

is_modified(d, m) == m # {}

_serialize_to_mongo(field, obj) == obj

_deserialize_from_mongo(field, value) == value

\* a serialize_to_mongo that takes None for a value to leave out
serialize_to_mongo_dropping_none(field, obj) ==
    IF obj = None \/ obj = Missing THEN Missing
    ELSE _serialize_to_mongo(field, obj)

serialize_to_mongo(field, obj) ==
    IF obj = None /\ field.allow_none THEN None
    ELSE IF obj = Missing THEN Missing
    ELSE _serialize_to_mongo(field, obj)

deserialize_from_mongo(field, value) ==
    IF value = None /\ field.allow_none THEN None
    ELSE _deserialize_from_mongo(field, value)

\* a _to_mongo that leaves out the dump_only fields
_to_mongo_loadable(t, d) ==
    Restrict(d, {k \in DOMAIN d :
        d[k] # Missing /\ ~SchemaFields(t)[FieldFromMongoKey(t, k)].dump_only})

_to_mongo(t, d) ==
    LET v == [k \in DOMAIN d |->
                 serialize_to_mongo(SchemaFields(t)[FieldFromMongoKey(t, k)], d[k])]
    IN  Restrict(v, {k \in DOMAIN d : v[k] # Missing})

\* a _to_mongo of the non-strict proxy that leaves out the additional data
NonStrict_to_mongo_known(t, d, ad) == _to_mongo(t, d)

\* BaseNonStrictDataProxy._to_mongo
NonStrict_to_mongo(t, d, ad) == ad @@ _to_mongo(t, d)

\* _to_mongo of the data proxy class of t
DataProxy_to_mongo(t, d, ad) ==
    IF t.strict THEN _to_mongo(t, d) ELSE NonStrict_to_mongo(t, d, ad)

NonePayload == [kind |-> "none", set |-> EmptyMap, unset |-> {}]

\* a _to_mongo_update that sets every field, modified or not
_to_mongo_update_all(t, d, m) ==
    IF _to_mongo(t, d) = EmptyMap THEN NonePayload
    ELSE [kind |-> "update", set |-> _to_mongo(t, d), unset |-> {}]

_to_mongo_update(t, d, m) ==
    LET names == {MongoName(t, n) : n \in get_modified_fields(t, d, m)}
        v == [k \in names |->
                 serialize_to_mongo(SchemaFields(t)[FieldFromMongoKey(t, k)], d[k])]
        unset_data == {k \in names : v[k] = Missing}
        set_data == Restrict(v, names \ unset_data)
    IN  IF set_data = EmptyMap /\ unset_data = {} THEN NonePayload
        ELSE [kind |-> "update", set |-> set_data, unset |-> unset_data]

required_validate(t, d) ==
    {n \in FieldNames(t) : SchemaFields(t)[n].required /\ d[MongoName(t, n)] = Missing}

pk(d) == IF d["_id"] = Missing THEN None ELSE d["_id"]

-----------------------------------------------------------------------------
(* Query mapping *)

map_entry(t, entry) == IF entry \in FieldNames(t) THEN MongoName(t, entry) ELSE entry

\* a map_query that keeps the field names
map_query_unmapped(t, query) == query

map_query(t, query) ==
    [k \in {map_entry(t, e) : e \in DOMAIN query} |->
        query[CHOOSE e \in DOMAIN query : map_entry(t, e) = k]]

-----------------------------------------------------------------------------
(* The collection of the store, with the indexes ensure_indexes created *)

IdIndex == parse_index(<<"_id">>, TRUE, FALSE)

IndexSet(t) == {opts_indexes(t)[i] : i \in 1 .. Len(opts_indexes(t))}

IndexEntry(doc, ix) ==
    [i \in 1 .. Len(ix.key) |-> IF ix.key[i] \in DOMAIN doc THEN doc[ix.key[i]] ELSE None]

IsIndexed(doc, ix) == ~ix.sparse \/ \E i \in 1 .. Len(ix.key) : ix.key[i] \in DOMAIN doc

\* names (key lists) of the unique indexes a write of doc next to others would violate
Violated(t, doc, others) ==
    {ix.key : ix \in {x \in IndexSet(t) \cup {IdIndex} :
        /\ x.unique
        /\ IsIndexed(doc, x)
        /\ \E o \in others : IsIndexed(o, x) /\ IndexEntry(o, x) = IndexEntry(doc, x)}}

FreeIds(coll) == {i \in Ids : \A o \in coll : o["_id"] # i}

\* the id the store generates for a document inserted without one
NewId(coll) ==
    IF FreeIds(coll) = {} THEN MaxVal + 1
    ELSE CHOOSE i \in FreeIds(coll) : \A j \in FreeIds(coll) : i <= j

Matches(doc, query) == \A k \in DOMAIN query : k \in DOMAIN doc /\ doc[k] = query[k]

Matching(coll, query) == {o \in coll : Matches(o, query)}

ApplyUpdate(doc, payload) ==
    Restrict(payload.set @@ doc, ((DOMAIN doc) \cup (DOMAIN payload.set)) \ payload.unset)

-----------------------------------------------------------------------------
(* What an operation leaves behind *)

NoLast == [op |-> "none", outcome |-> "ok", branch |-> "none", names |-> {}, raw |-> EmptyMap]

Last(op, outcome, branch) ==
    [op |-> op, outcome |-> outcome, branch |-> branch, names |-> {}, raw |-> EmptyMap]

\* an operation of the data proxy on the fields of the given names
LastOn(op, outcome, branch, names) ==
    [op |-> op, outcome |-> outcome, branch |-> branch, names |-> names, raw |-> EmptyMap]

\* the result of running an operation on the document: what it left in the
\* document and in the collection, and what it did
Result(outcome, branch, log, d, m, created, coll) ==
    [outcome |-> outcome, branch |-> branch, log |-> log, data |-> d, modified |-> m,
     is_created |-> created, collection |-> coll, query |-> EmptyMap,
     payload |-> NonePayload, validated |-> {}, failed |-> {}, errors |-> {},
     violated |-> {}, ret |-> "None"]

\* no instance: the document class is followed alone
NoInstance == [built |-> <<>>]

-----------------------------------------------------------------------------
(* I/O validation *)

ValidatorResults == {"ok", "invalid", "error"}

\* what the validators in the list io_validate of a field do, one after the
\* other: name has two validators, the second of which fails with
\* validation errors only, every other field has one
ValidatorRuns(n) ==
    IF n = "name" THEN {<<first, second>> : first \in ValidatorResults,
                                            second \in {"ok", "invalid"}}
    ELSE {<<first>> : first \in ValidatorResults}

\* the first validator of the list that fails with another error, or 0
FirstRaising(results) ==
    IF \E i \in 1 .. Len(results) : results[i] = "error"
    THEN CHOOSE i \in 1 .. Len(results) :
            /\ results[i] = "error"
            /\ \A j \in 1 .. (i - 1) : results[j] # "error"
    ELSE 0

\* a _run_validators that gives up at the first validator that fails
_run_validators_fail_fast(a, results) ==
    LET failing == {i \in 1 .. Len(results) : results[i] # "ok"}
        first == IF failing = {} THEN 0
                 ELSE CHOOSE i \in failing : \A j \in failing : i <= j
    IN  [ran |-> IF first = 0 THEN 1 .. Len(results) ELSE 1 .. first,
         raised |-> IF first = 0 THEN "ok" ELSE results[first]]

\* _run_validators of adapter a on the validators of one field: the
\* validators it runs and what it ends with; "error" under txmongo is the
\* failure left in the Deferred of a validator
_run_validators(a, results) ==
    LET first == FirstRaising(results)
        ran == IF a = "pymongo" /\ first # 0 THEN 1 .. first ELSE 1 .. Len(results)
    IN  [ran |-> ran,
         raised |-> IF a # "txmongo" /\ first # 0 THEN "error"
                    ELSE IF \E i \in ran : results[i] = "invalid" THEN "invalid"
                    ELSE IF first # 0 THEN "error"
                    ELSE "ok"]

\* what the validators of each field end with
FieldResults(a, runs) == [n \in DOMAIN runs |-> _run_validators(a, runs[n]).raised]

\* the fields whose validators _io_validate_data_proxy reaches, in schema order
IoScope(t, d, partial) ==
    SelectSeq(SchemaOrder(t), LAMBDA n :
        /\ ~(partial # {} /\ n \notin partial)
        /\ d[MongoName(t, n)] # Missing
        /\ SchemaFields(t)[n].io_validate)

FirstError(scope, vres) ==
    IF \E i \in 1 .. Len(scope) : vres[scope[i]] = "error"
    THEN CHOOSE i \in 1 .. Len(scope) :
            /\ vres[scope[i]] = "error"
            /\ \A j \in 1 .. (i - 1) : vres[scope[j]] # "error"
    ELSE 0

_io_validate_data_proxy(a, t, d, partial, vres) ==
    LET scope == IoScope(t, d, partial)
        first == FirstError(scope, vres)
        all == {scope[i] : i \in 1 .. Len(scope)}
        ran == IF a = "pymongo" /\ first # 0 THEN {scope[i] : i \in 1 .. first} ELSE all
        errors == {n \in ran : vres[n] = "invalid"}
        raised == IF a # "txmongo" /\ first # 0 THEN "ValidatorError"
                  ELSE IF errors # {} THEN "ValidationError"
                  ELSE "none"
    IN  [ran |-> ran, failed |-> {n \in ran : vres[n] # "ok"}, errors |-> errors,
         raised |-> raised]

\* an io_validate that runs the validators of every field
io_validate_every_field(a, t, d, m, validate_all, vres) ==
    _io_validate_data_proxy(a, t, d, {}, FieldResults(a, vres))

io_validate(a, t, d, m, validate_all, vres) ==
    IF validate_all THEN _io_validate_data_proxy(a, t, d, {}, FieldResults(a, vres))
    ELSE _io_validate_data_proxy(a, t, d, get_modified_fields(t, d, m),
                                 FieldResults(a, vres))

-----------------------------------------------------------------------------
(* Commit *)

ErrFormats == {"dollar", "space"}

\* '.$name' in errmsg or ' name ' in errmsg, for the message of the given format
IndexInErrmsg(name, errmsg) ==
    IF errmsg.format = "dollar" THEN IsPrefix(name, errmsg.index) ELSE name = errmsg.index

SortedKeys(keys) == {keys[i] : i \in 1 .. Len(keys)}

RECURSIVE DuplicateKeyHandler(_, _, _, _)
\* the except clause of commit: the error raised in place of the DuplicateKeyError
DuplicateKeyHandler(a, t, indexes, errmsg) ==
    IF indexes = <<>>
    THEN [outcome |-> IF a = "txmongo" THEN "fallthrough" ELSE "DuplicateKeyError",
          errors |-> {}]
    ELSE LET index == Head(indexes)
         IN  IF IndexInErrmsg(index.key, errmsg)
             THEN IF SortedKeys(index.key) \subseteq FieldNames(t)
                  THEN [outcome |-> "ValidationError", errors |-> SortedKeys(index.key)]
                  ELSE [outcome |-> "KeyError", errors |-> {}]
             ELSE DuplicateKeyHandler(a, t, Tail(indexes), errmsg)

\* the end of commit once a DuplicateKeyError was caught
AfterDuplicateKey(a, t, branch, log, d, m, created, coll, errmsg) ==
    LET h == DuplicateKeyHandler(a, t, opts_indexes(t), errmsg)
    IN  IF h.outcome = "fallthrough"
        THEN Result("UnboundLocalError", branch, log \o <<"clear_modified">>, d, {},
                    created, coll)
        ELSE [Result(h.outcome, branch, log, d, m, created, coll)
                EXCEPT !.errors = h.errors]

PickViolated(violated, dup) == IF dup \in violated THEN dup ELSE CHOOSE x \in violated : TRUE

\* the insert branch once the validations gave req and io
insert_validated(a, t, d, m, nl, coll, in, req, io, payload) ==
    LET log1 == <<"pre_insert", "required_validate">>
        log2 == log1 \o <<"io_validate">>
        log3 == log2 \o <<"insert_one">>
        doc == IF "_id" \in DOMAIN payload.set THEN payload.set
               ELSE ("_id" :> NewId(coll)) @@ payload.set
        violated == Violated(t, doc, coll)
        R(outcome, log, d2, m2, created, coll2) ==
            [Result(outcome, "insert", log, d2, m2, created, coll2)
                EXCEPT !.validated = io.ran, !.failed = io.failed, !.errors = io.errors,
                       !.payload = IF Len(log) > 3 THEN payload ELSE NonePayload]
    IN  IF req # {}
        THEN [Result("ValidationError", "insert", log1, d, m, FALSE, coll)
                EXCEPT !.errors = req]
        ELSE IF io.raised # "none" THEN R(io.raised, log2, d, m, FALSE, coll)
        ELSE IF in.fault THEN R("StorageError", log3, d, m, FALSE, coll)
        ELSE IF violated # {}
        THEN [AfterDuplicateKey(a, t, "insert", log3, d, m, FALSE, coll,
                                [index |-> PickViolated(violated, in.dup),
                                 format |-> in.format])
                EXCEPT !.validated = io.ran, !.failed = io.failed,
                       !.payload = payload, !.violated = violated]
        ELSE IF FieldFromMongoKey(t, "_id") \in nl
        THEN R("FieldNotLoadedError", log3 \o <<"set_pk">>,
               [d EXCEPT !["_id"] = doc["_id"]], m, FALSE, coll \cup {doc})
        ELSE [R("ok", log3 \o <<"set_pk", "set_is_created", "post_insert",
                              "clear_modified">>,
                [d EXCEPT !["_id"] = doc["_id"]], {}, TRUE, coll \cup {doc})
                EXCEPT !.ret = "InsertOneResult"]

commit_insert(a, t, d, m, nl, coll, in) ==
    insert_validated(a, t, d, m, nl, coll, in, required_validate(t, d),
                     io_validate(a, t, d, m, in.io_validate_all, in.vres),
                     [kind |-> "insert", set |-> _to_mongo(t, d), unset |-> {}])

\* the update branch once the filter is built and the validations gave req and io
update_validated(a, t, d, m, nl, coll, in, query, req, io, payload) ==
    LET log1 == <<"pre_update">>
        log2 == log1 \o <<"required_validate">>
        log3 == log2 \o <<"io_validate">>
        log4 == log3 \o <<"update_one">>
        matching == Matching(coll, query)
        old == CHOOSE o \in matching : TRUE
        new == ApplyUpdate(old, payload)
        violated == Violated(t, new, coll \ {old})
        R(outcome, log, m2, coll2) ==
            [Result(outcome, "update", log, d, m2, TRUE, coll2)
                EXCEPT !.validated = io.ran, !.failed = io.failed, !.errors = io.errors,
                       !.query = query,
                       !.payload = IF Len(log) > 3 THEN payload ELSE NonePayload]
    IN  IF FieldFromMongoKey(t, "_id") \in nl
        THEN Result("FieldNotLoadedError", "update", <<>>, d, m, TRUE, coll)
        ELSE IF req # {}
        THEN [Result("ValidationError", "update", log2, d, m, TRUE, coll)
                EXCEPT !.errors = req, !.query = query]
        ELSE IF io.raised # "none" THEN R(io.raised, log3, m, coll)
        ELSE IF payload.kind = "none" THEN R("TypeError", log4, m, coll)
        ELSE IF in.fault THEN R("StorageError", log4, m, coll)
        ELSE IF matching = {} THEN R("UpdateError", log4, m, coll)
        ELSE IF new["_id"] # old["_id"] THEN R("WriteError", log4, m, coll)
        ELSE IF violated # {}
        THEN [AfterDuplicateKey(a, t, "update", log4, d, m, TRUE, coll,
                                [index |-> PickViolated(violated, in.dup),
                                 format |-> in.format])
                EXCEPT !.validated = io.ran, !.failed = io.failed,
                       !.query = query, !.payload = payload, !.violated = violated]
        ELSE [R("ok", log4 \o <<"post_update", "clear_modified">>, {},
                (coll \ {old}) \cup {new}) EXCEPT !.ret = "UpdateResult"]

commit_update(a, t, d, m, nl, coll, in) ==
    update_validated(a, t, d, m, nl, coll, in,
                     map_query(t, in.hook_filter) @@ ("_id" :> pk(d)) @@ in.conditions,
                     required_validate(t, d),
                     io_validate(a, t, d, m, in.io_validate_all, in.vres),
                     _to_mongo_update(t, d, m))

\* an is_modified that ignores the markers
doc_is_modified_always(d, m, created) == TRUE

\* DocumentImplementation.is_modified
doc_is_modified(d, m, created) == ~created \/ is_modified(d, m)

commit(a, t, d, m, nl, created, coll, in) ==
    IF created
    THEN IF doc_is_modified(d, m, created)
         THEN commit_update(a, t, d, m, nl, coll, in)
         ELSE Result("ok", "noop", <<"clear_modified">>, d, {}, created, coll)
    ELSE IF in.conditions # EmptyMap
    THEN Result("RuntimeError", "conditions", <<>>, d, m, created, coll)
    ELSE commit_insert(a, t, d, m, nl, coll, in)

\* a delete that does not look at is_created
delete_refused_never(created) == FALSE

\* the guard of delete: it raises NotCreatedError
delete_refused(created) == ~created

\* a delete that leaves the document created
delete_one_keeping_created(t, d, m, nl, created, coll, in, query, matching) ==
    IF delete_refused(created)
    THEN Result("NotCreatedError", "delete", <<>>, d, m, created, coll)
    ELSE IF FieldFromMongoKey(t, "_id") \in nl
    THEN Result("FieldNotLoadedError", "delete", <<>>, d, m, created, coll)
    ELSE IF in.fault
    THEN [Result("StorageError", "delete", <<"pre_delete", "delete_one">>, d, m, TRUE, coll)
            EXCEPT !.query = query]
    ELSE IF matching = {}
    THEN [Result("DeleteError", "delete", <<"pre_delete", "delete_one">>, d, m, TRUE, coll)
            EXCEPT !.query = query]
    ELSE [Result("ok", "delete",
                 <<"pre_delete", "delete_one", "unset_is_created", "post_delete">>,
                 d, m, TRUE, coll \ {CHOOSE o \in matching : TRUE})
            EXCEPT !.query = query, !.ret = "DeleteResult"]

\* delete once the filter is built
delete_one(t, d, m, nl, created, coll, in, query, matching) ==
    IF delete_refused(created)
    THEN Result("NotCreatedError", "delete", <<>>, d, m, created, coll)
    ELSE IF FieldFromMongoKey(t, "_id") \in nl
    THEN Result("FieldNotLoadedError", "delete", <<>>, d, m, created, coll)
    ELSE IF in.fault
    THEN [Result("StorageError", "delete", <<"pre_delete", "delete_one">>, d, m, TRUE, coll)
            EXCEPT !.query = query]
    ELSE IF matching = {}
    THEN [Result("DeleteError", "delete", <<"pre_delete", "delete_one">>, d, m, TRUE, coll)
            EXCEPT !.query = query]
    ELSE [Result("ok", "delete",
                 <<"pre_delete", "delete_one", "unset_is_created", "post_delete">>,
                 d, m, FALSE, coll \ {CHOOSE o \in matching : TRUE})
            EXCEPT !.query = query, !.ret = "DeleteResult"]

\* delete (remove in motor_asyncio) of the three adapters
delete(a, t, d, m, nl, created, coll, in) ==
    delete_one(t, d, m, nl, created, coll, in,
               map_query(t, in.hook_filter) @@ ("_id" :> pk(d)) @@ in.conditions,
               Matching(coll, map_query(t, in.hook_filter) @@ ("_id" :> pk(d))
                                @@ in.conditions))

-----------------------------------------------------------------------------
(* Operations of the data proxy: the proxy they leave and the error raised *)

Proxy(outcome, d, m, nl) == [outcome |-> outcome, data |-> d, modified |-> m, not_loaded |-> nl]

\* a _get_field that does not look at not_loaded_fields
_get_field_unchecked(t, nl, name, to_raise) ==
    IF name \notin FieldNames(t) THEN to_raise ELSE "ok"

\* _get_field: the error it raises for name, "ok" when it returns the field
_get_field(t, nl, name, to_raise) ==
    IF name \notin FieldNames(t) THEN to_raise
    ELSE IF name \in nl THEN "FieldNotLoadedError"
    ELSE "ok"

get(t, d, m, nl, name, to_raise) == Proxy(_get_field(t, nl, name, to_raise), d, m, nl)

\* a set that stores the value and leaves the markers as they are
set_unmarked(t, d, m, nl, name, value, to_raise) ==
    IF _get_field(t, nl, name, to_raise) # "ok"
    THEN Proxy(_get_field(t, nl, name, to_raise), d, m, nl)
    ELSE Proxy("ok", [d EXCEPT ![MongoName(t, name)] = value], m, nl)

set(t, d, m, nl, name, value, to_raise) ==
    IF _get_field(t, nl, name, to_raise) # "ok"
    THEN Proxy(_get_field(t, nl, name, to_raise), d, m, nl)
    ELSE IF value = None /\ ~SchemaFields(t)[name].allow_none
    THEN Proxy("ValidationError", d, m, nl)
    ELSE IF value = BadValue THEN Proxy("ValidationError", d, m, nl)
    ELSE Proxy("ok", [d EXCEPT ![MongoName(t, name)] = value],
               m \cup {MongoName(t, name)}, nl)

\* a delete that resets the value and leaves the markers as they are
delete_field_unmarked(t, d, m, nl, name, to_raise) ==
    IF _get_field(t, nl, name, to_raise) # "ok"
    THEN Proxy(_get_field(t, nl, name, to_raise), d, m, nl)
    ELSE Proxy("ok", [d EXCEPT ![MongoName(t, name)] = SchemaFields(t)[name].default],
               m, nl)

delete_field(t, d, m, nl, name, to_raise) ==
    IF _get_field(t, nl, name, to_raise) # "ok"
    THEN Proxy(_get_field(t, nl, name, to_raise), d, m, nl)
    ELSE Proxy("ok", [d EXCEPT ![MongoName(t, name)] = SchemaFields(t)[name].default],
               m \cup {MongoName(t, name)}, nl)

\* an update that leaves not_loaded_fields as they are
update_keeping_not_loaded(t, d, m, nl, input) ==
    IF SchemaLoadErrors(t, input) # {} THEN Proxy("ValidationError", d, m, nl)
    ELSE LET loaded_data == SchemaLoad(t, input)
         IN  Proxy("ok", loaded_data @@ d, m \cup DOMAIN loaded_data, nl)

update(t, d, m, nl, input) ==
    IF SchemaLoadErrors(t, input) # {} THEN Proxy("ValidationError", d, m, nl)
    ELSE LET loaded_data == SchemaLoad(t, input)
         IN  Proxy("ok", loaded_data @@ d, m \cup DOMAIN loaded_data,
                   nl \ {FieldFromMongoKey(t, k) : k \in DOMAIN loaded_data})

load(t, d, m, nl, input, partial) ==
    IF SchemaLoadErrors(t, input) # {} THEN Proxy("ValidationError", d, m, nl)
    ELSE LET loaded_data == SchemaLoad(t, input)
         IN  Proxy("ok", _add_missing_fields(t, loaded_data), DOMAIN loaded_data,
                   IF partial THEN _collect_partial_fields(t, DOMAIN input, FALSE) ELSE {})

get_by_mongo_name(t, d, m, nl, key) ==
    Proxy(IF FieldFromMongoKey(t, key) \in nl THEN "FieldNotLoadedError" ELSE "ok", d, m, nl)

set_by_mongo_name(t, d, m, nl, key, value) ==
    IF FieldFromMongoKey(t, key) \in nl
    THEN Proxy("FieldNotLoadedError", [d EXCEPT ![key] = value], m, nl)
    ELSE Proxy("ok", [d EXCEPT ![key] = value], m \cup {key}, nl)

\* from_mongo of the data proxy class of t, strict or not; seen are the keys
\* of raw it went through before the first key no field maps to
from_mongo(t, d, m, nl, ad, raw, partial, seen) ==
    LET unknown == (DOMAIN raw) \ MongoKeys(t)
        read == [k \in (DOMAIN raw) \cap MongoKeys(t) |->
                    deserialize_from_mongo(SchemaFields(t)[FieldFromMongoKey(t, k)], raw[k])]
    IN  IF t.strict /\ unknown # {}
        THEN [additional |-> ad] @@ Proxy("UnknownFieldInDBError", Restrict(read, seen), m, nl)
        ELSE [additional |-> IF t.strict THEN ad ELSE Restrict(raw, unknown) @@ ad] @@
             Proxy("ok", _add_missing_fields(t, read), {},
                   IF partial THEN _collect_partial_fields(t, DOMAIN raw, TRUE) ELSE {})

\* DocumentImplementation.to_mongo: the payload, and the error raised
to_mongo(t, d, m, created, upd) ==
    IF upd /\ ~created THEN [outcome |-> "NotCreatedError", payload |-> NonePayload]
    ELSE IF upd THEN [outcome |-> "ok", payload |-> _to_mongo_update(t, d, m)]
    ELSE [outcome |-> "ok", payload |-> [kind |-> "insert", set |-> _to_mongo(t, d),
                                         unset |-> {}]]

-----------------------------------------------------------------------------
(* Inputs *)

LoadableNames(t) == {n \in FieldNames(t) : ~SchemaFields(t)[n].dump_only}

\* the values the program gives to a field
FieldValues(name) ==
    IF name = "age" THEN {1}
    ELSE IF name \in {"nick", "code"} THEN {1, None}
    ELSE Values

LoadableInputs(t) ==
    UNION {{input \in [S -> Values \cup {None}] : \A n \in S : input[n] \in FieldValues(n)} :
           S \in SUBSET LoadableNames(t)}

Conditions == {EmptyMap, ("age" :> 1)}

HookFilters == {EmptyMap, ("name" :> 1), ("id" :> MaxVal)}

NoIndex == <<>>

NoVres == [name |-> <<"ok", "ok">>, age |-> <<"ok">>]

\* the fields whose validators a commit reaches
Scoped(t, d, m, all) ==
    {n \in FieldNames(t) :
        /\ all \/ m = {} \/ MongoName(t, n) \in m
        /\ d[MongoName(t, n)] # Missing
        /\ SchemaFields(t)[n].io_validate}

\* the duplicate-key messages the store can give for a write with input in
Errmsgs(violated) ==
    IF violated = {} THEN {[index |-> NoIndex, format |-> "space"]}
    ELSE [index : violated, format : ErrFormats]

\* the inputs of one commit: the arguments, what pre_update returns, what each
\* I/O validator in scope does, whether the store fails, and the duplicate-key
\* message of the store when the write violates unique indexes.  A validator
\* out of scope is left at "ok", io_validate_all is given only where it
\* widens the scope, and a store failure or a hook filter comes only with
\* validators that all pass
CommitInputsOf(a, t, d, m, nl, created, coll) ==
    LET base == [io_validate_all |-> FALSE, conditions |-> EmptyMap,
                 hook_filter |-> EmptyMap, vres |-> NoVres, fault |-> FALSE,
                 dup |-> NoIndex, format |-> "space"]
        plain ==
            IF created /\ ~doc_is_modified(d, m, created)
            THEN {[base EXCEPT !.conditions = c] : c \in Conditions}
            ELSE {[base EXCEPT !.conditions = c] : c \in Conditions \ {EmptyMap}} \cup
                 {in \in [io_validate_all : BOOLEAN, conditions : {EmptyMap},
                          hook_filter : IF created THEN HookFilters ELSE {EmptyMap},
                          vres : [name : ValidatorRuns("name"), age : ValidatorRuns("age")],
                          fault : BOOLEAN, dup : {NoIndex}, format : {"space"}] :
                    /\ \A n \in {"name", "age"} \ Scoped(t, d, m, in.io_validate_all) :
                        in.vres[n] = NoVres[n]
                    /\ in.io_validate_all =>
                        Scoped(t, d, m, TRUE) # Scoped(t, d, m, FALSE)
                    /\ in.vres # NoVres => (~in.fault /\ in.hook_filter = EmptyMap)}
    IN  UNION {{[in EXCEPT !.dup = e.index, !.format = e.format] :
                    e \in Errmsgs(commit(a, t, d, m, nl, created, coll, in).violated)} :
               in \in plain}

CommitInputs == CommitInputsOf(adapter, cls, data, modified, not_loaded, is_created, collection)

DeleteInputs ==
    [conditions : Conditions, hook_filter : HookFilters, fault : BOOLEAN]

-----------------------------------------------------------------------------
(* Initial state: a new document built with no argument, an empty collection *)

Init ==
    /\ adapter \in Adapters
    /\ cls \in Implementations
    /\ data = _add_missing_fields(cls, EmptyMap)
    /\ modified = {}
    /\ not_loaded = {}
    /\ additional_data = EmptyMap
    /\ is_created = FALSE
    /\ collection = {}
    /\ instance = NoInstance
    /\ last = NoLast
    /\ steps = 0

-----------------------------------------------------------------------------
(* Operations on the document *)

\* one more operation of the program, within the bound
Step == steps < MaxSteps /\ steps' = steps + 1

\* the document and the trace left by an operation of the data proxy that gave r
LeavesProxy(r, op) ==
    /\ data' = r.data
    /\ modified' = r.modified
    /\ not_loaded' = r.not_loaded
    /\ last' = Last(op, r.outcome, "none")
    /\ UNCHANGED <<adapter, cls, additional_data, collection, instance>>

\* the document, the collection and the trace left by a run r of commit or delete
LeavesRun(r, op) ==
    /\ data' = r.data
    /\ modified' = r.modified
    /\ is_created' = r.is_created
    /\ collection' = r.collection
    /\ last' = Last(op, r.outcome, r.branch)
    /\ UNCHANGED <<adapter, cls, not_loaded, additional_data, instance>>

\* DocumentImplementation.__init__(**kwargs): a new in-memory document
New ==
    /\ Step
    /\ is_created' = FALSE
    /\ \E input \in LoadableInputs(cls) :
        LeavesProxy(load(cls, data, {}, {}, input, FALSE), "new")

\* doc[name] = value
SetItem ==
    /\ Step
    /\ UNCHANGED is_created
    /\ \E name \in LoadableNames(cls) : \E value \in FieldValues(name) :
        LeavesProxy(set(cls, data, modified, not_loaded, name, value, "KeyError"), "set")

Commit ==
    /\ Step
    /\ is_created \/ FreeIds(collection) # {}
    /\ \E in \in CommitInputs :
        LeavesRun(commit(adapter, cls, data, modified, not_loaded, is_created,
                         collection, in), "commit")

Delete ==
    /\ Step
    /\ \E in \in DeleteInputs :
        LeavesRun(delete(adapter, cls, data, modified, not_loaded, is_created,
                         collection, in), "delete")

ToMongo ==
    /\ Step
    /\ \E upd \in BOOLEAN :
        /\ last' = Last("to_mongo", to_mongo(cls, data, modified, is_created, upd).outcome,
                        IF upd THEN "update" ELSE "insert")
        /\ UNCHANGED <<adapter, cls, data, modified, not_loaded, additional_data,
                       is_created, collection, instance>>

Next == New \/ SetItem \/ Commit \/ Delete \/ ToMongo

Spec == Init /\ [][Next]_vars

-----------------------------------------------------------------------------
(* Properties of commit and delete *)

\* every run the commit of the current document can take, one per input
CommitRun(in) ==
    commit(adapter, cls, data, modified, not_loaded, is_created, collection, in)

DeleteRun(in) ==
    delete(adapter, cls, data, modified, not_loaded, is_created, collection, in)

\* the hooks, validations and storage calls of a run, in the order they ran
StepsOf(r) == SelectSeq(r.log, LAMBDA e : e # "clear_modified")

Position(log, e) ==
    IF \E i \in 1 .. Len(log) : log[i] = e
    THEN CHOOSE i \in 1 .. Len(log) : log[i] = e /\ \A j \in 1 .. (i - 1) : log[j] # e
    ELSE 0

Count(log, e) == Cardinality({i \in 1 .. Len(log) : log[i] = e})

\* the filter of an update or delete: conditions, _id = pk, and on top the
\* filter the hook returned with its field names replaced by storage keys
FilterIs(query, conditions, hook_filter) ==
    LET hooked == {IF e \in FieldNames(cls) THEN MongoName(cls, e) ELSE e :
                    e \in DOMAIN hook_filter}
    IN  /\ DOMAIN query = hooked \cup {"_id"} \cup DOMAIN conditions
        /\ \A e \in DOMAIN hook_filter :
            query[IF e \in FieldNames(cls) THEN MongoName(cls, e) ELSE e] = hook_filter[e]
        /\ "_id" \notin hooked => query["_id"] = pk(data)
        /\ \A k \in (DOMAIN conditions) \ (hooked \cup {"_id"}) : query[k] = conditions[k]

InsertOrder ==
    <<"pre_insert", "required_validate", "io_validate", "insert_one", "set_pk",
      "set_is_created", "post_insert">>

UpdateOrder ==
    <<"pre_update", "required_validate", "io_validate", "update_one", "post_update">>

\* C1: the commit of a document that is not created, given no conditions, runs
\* pre_insert, the required validation, the I/O validators, one insert of the
\* full payload, the setting of pk to the inserted id and of is_created, then
\* post_insert, in that order; when it returns the document is created and its
\* pk is not None
C1_InsertOrder ==
    \A in \in CommitInputs :
        (~is_created /\ in.conditions = EmptyMap) =>
            LET r == CommitRun(in)
            IN  /\ IsPrefix(StepsOf(r), InsertOrder)
                /\ r.outcome = "ok" =>
                    /\ StepsOf(r) = InsertOrder
                    /\ r.is_created
                    /\ pk(r.data) # None
                    /\ \A k \in DOMAIN data :
                        data[k] # Missing =>
                            k \in DOMAIN r.payload.set /\ r.payload.set[k] = data[k]
                    /\ Cardinality(r.collection \ collection) = 1
                    /\ collection \subseteq r.collection
                    /\ \E doc \in r.collection \ collection :
                        /\ doc["_id"] = pk(r.data)
                        /\ \A k \in DOMAIN r.payload.set : doc[k] = r.payload.set[k]

C1_Inserted ==
    /\ last = Last("commit", "ok", "insert")
    /\ is_created
    /\ pk(data) # None
    /\ \E doc \in collection : doc["_id"] = pk(data)

\* C2: the commit of a created, modified document builds the filter from the
\* conditions and _id = pk, runs pre_update and adds the filter it returns
\* after mapping it, runs the required validation, the I/O validators, and
\* exactly one update whose payload sets or unsets the modified fields only;
\* no document matched gives UpdateError without post_update, a matched
\* document gives post_update
C2_UpdateOrder ==
    \A in \in CommitInputs :
        (is_created /\ modified # {} /\ FieldFromMongoKey(cls, "_id") \notin not_loaded) =>
            LET r == CommitRun(in)
            IN  /\ r.branch = "update"
                /\ IsPrefix(StepsOf(r), UpdateOrder)
                /\ FilterIs(r.query, in.conditions, in.hook_filter)
                /\ Count(r.log, "update_one") <= 1
                /\ (required_validate(cls, data) = {} /\ r.failed = {}) =>
                    Count(r.log, "update_one") = 1
                /\ Count(r.log, "update_one") = 1 =>
                    /\ (DOMAIN r.payload.set) \cup r.payload.unset = modified
                    /\ \A k \in DOMAIN r.payload.set : r.payload.set[k] = data[k]
                    /\ \A k \in r.payload.unset : data[k] = Missing
                /\ (Count(r.log, "update_one") = 1 /\ ~in.fault) =>
                    IF Matching(collection, r.query) = {}
                    THEN /\ r.outcome = "UpdateError"
                         /\ Count(r.log, "post_update") = 0
                         /\ r.collection = collection
                    ELSE \/ r.outcome = "ok" /\ StepsOf(r) = UpdateOrder
                         \/ r.violated # {} /\ r.outcome # "ok"
                         \/ r.outcome = "WriteError"

C2_UpdateRefused ==
    /\ last = Last("commit", "UpdateError", "update")
    /\ is_created
    /\ modified # {}

\* C3: in a commit of any adapter the required validation is finished before
\* an I/O validator runs and the I/O validators before the write; when
\* the required validation or one I/O validator fails there is no insert and
\* no update
C3_ValidationBeforeWrite ==
    \A in \in CommitInputs :
        LET r == CommitRun(in)
            write == Position(r.log, "insert_one") + Position(r.log, "update_one")
        IN  r.branch \in {"insert", "update"} =>
                /\ Position(r.log, "io_validate") > 0 =>
                    /\ Position(r.log, "required_validate") > 0
                    /\ Position(r.log, "required_validate") < Position(r.log, "io_validate")
                /\ write > 0 =>
                    /\ Position(r.log, "io_validate") > 0
                    /\ Position(r.log, "io_validate") < write
                /\ (required_validate(cls, data) # {} \/ r.failed # {}) => write = 0

\* C4: the commit of a created document with no modified field runs no hook
\* and no validation, issues no storage operation, leaves the values, the
\* markers, is_created and the collection as they were, and returns None
C4_UnmodifiedCommitIsNoOp ==
    \A in \in CommitInputs :
        (is_created /\ ~is_modified(data, modified)) =>
            LET r == CommitRun(in)
            IN  /\ StepsOf(r) = <<>>
                /\ r.outcome = "ok"
                /\ r.ret = "None"
                /\ r.data = data
                /\ r.modified = modified
                /\ r.is_created = is_created
                /\ r.collection = collection

C4_NoOpDone ==
    /\ last = Last("commit", "ok", "noop")
    /\ is_created
    /\ modified = {}
    /\ collection # {}

\* C5: a commit that succeeds clears the modified markers; a commit that fails
\* on the required or I/O validation, with UpdateError, or on a duplicate-key
\* or other storage error leaves the markers and is_created as they were
C5_MarkersAfterCommit ==
    \A in \in CommitInputs :
        LET r == CommitRun(in)
        IN  /\ r.outcome = "ok" => r.modified = {}
            /\ (/\ r.outcome # "ok"
                /\ \/ r.outcome \in {"ValidationError", "ValidatorError", "UpdateError",
                                     "StorageError", "WriteError"}
                   \/ r.violated # {}) =>
                    r.modified = modified /\ r.is_created = is_created

C7_UniqueConflict ==
    \A in \in CommitInputs : \A n \in FieldNames(cls) :
        LET r == CommitRun(in)
            key == MongoName(cls, n)
        IN  (/\ ~is_created
             /\ in.conditions = EmptyMap
             /\ ~in.fault
             /\ SchemaFields(cls)[n].unique
             /\ data[key] # Missing
             /\ required_validate(cls, data) = {}
             /\ r.failed = {}) =>
                IF \E o \in collection : key \in DOMAIN o /\ o[key] = data[key]
                THEN r.outcome = "ValidationError" /\ r.errors = {n}
                ELSE r.outcome = "ok"

\* C8: in every adapter a duplicate-key error of the store whose message
\* matches no index of the document class leaves commit with that same error
C8_UnmatchedDuplicateReraised ==
    \A in \in CommitInputs :
        LET r == CommitRun(in)
            errmsg == [index |-> in.dup, format |-> in.format]
        IN  (/\ r.violated # {}
             /\ \A i \in 1 .. Len(opts_indexes(cls)) :
                    ~IndexInErrmsg(opts_indexes(cls)[i].key, errmsg)) =>
                r.outcome = "DuplicateKeyError"

\* C10: with no mutation since to_mongo(update=False), to_mongo(update=True)
\* is None exactly when no field is marked modified, as right after a commit
\* that succeeded; on a document that is not created it raises NotCreatedError
C10_UpdatePayloadOfUnmodified ==
    /\ (last.op = "to_mongo" /\ last.branch = "insert") =>
        LET r == to_mongo(cls, data, modified, is_created, TRUE)
        IN  /\ _to_mongo_update(cls, data, modified) = NonePayload <=> modified = {}
            /\ ~is_created => r.outcome = "NotCreatedError"
            /\ is_created =>
                /\ r.outcome = "ok"
                /\ r.payload = NonePayload <=> modified = {}
    /\ (last.op = "commit" /\ last.outcome = "ok") =>
        to_mongo(cls, data, modified, is_created, TRUE).payload = NonePayload

C10_AfterInsertPayload ==
    /\ last = Last("to_mongo", "ok", "insert")
    /\ is_created
    /\ modified = {}
    /\ to_mongo(cls, data, modified, is_created, TRUE).payload = NonePayload

\* C10 as stated: to_mongo(update=True) right after to_mongo(update=False) is None
C10_UpdatePayloadIsNone ==
    (last.op = "to_mongo" /\ last.branch = "insert") =>
        _to_mongo_update(cls, data, modified) = NonePayload

-----------------------------------------------------------------------------
(* The data proxy alone: loads, reloads and accesses to single fields *)

\* one more operation on the proxy, within the bound; a proxy whose
\* from_mongo raised is left with part of its values and is given up
StepProxy ==
    /\ steps < MaxProxySteps
    /\ last.outcome # "UnknownFieldInDBError"
    /\ steps' = steps + 1

\* a storage key no field of the classes maps to
UnknownKeys == {"extra"}

\* documents as the store returns them: values under storage keys, the _id
\* among them unless a projection left it out, with or without a key that
\* no field maps to
RawInputs(t, partial) ==
    UNION {{raw \in [S -> Values \cup {None}] :
                \A k \in S : raw[k] \in IF k \in MongoKeys(t)
                                         THEN FieldValues(FieldFromMongoKey(t, k))
                                         ELSE Values} :
           S \in {K \in SUBSET (MongoKeys(t) \cup UnknownKeys) : partial \/ "_id" \in K}}

\* the sets of keys from_mongo can have gone through when it meets the first
\* unknown key of raw, in the order the raw document gives its keys
SeenBefore(t, raw) ==
    IF (DOMAIN raw) \subseteq MongoKeys(t) THEN {(DOMAIN raw)}
    ELSE SUBSET ((DOMAIN raw) \cap MongoKeys(t))

InitProxy ==
    /\ adapter = "pymongo"
    /\ cls \in ProxyImplementations
    /\ data = _add_missing_fields(cls, EmptyMap)
    /\ modified = {}
    /\ not_loaded = {}
    /\ additional_data = EmptyMap
    /\ is_created = FALSE
    /\ collection = {}
    /\ instance = NoInstance
    /\ last = NoLast
    /\ steps = 0

\* the proxy and the trace left by an operation that gave r
Leaves(r, op, branch, names) ==
    /\ data' = r.data
    /\ modified' = r.modified
    /\ not_loaded' = r.not_loaded
    /\ last' = LastOn(op, r.outcome, branch, names)
    /\ UNCHANGED <<adapter, cls, additional_data, is_created, collection, instance>>

\* the proxy and the trace left by a from_mongo of raw that gave r
LeavesFromMongo(r, partial, raw) ==
    /\ data' = r.data
    /\ modified' = r.modified
    /\ not_loaded' = r.not_loaded
    /\ additional_data' = r.additional
    /\ last' = [LastOn("from_mongo", r.outcome, IF partial THEN "partial" ELSE "full",
                       {FieldFromMongoKey(cls, k) : k \in (DOMAIN raw) \cap MongoKeys(cls)})
                    EXCEPT !.raw = raw]
    /\ UNCHANGED <<adapter, cls, is_created, collection, instance>>

Load ==
    /\ StepProxy
    /\ \E input \in LoadableInputs(cls) : \E partial \in BOOLEAN :
        Leaves(load(cls, data, modified, not_loaded, input, partial), "load",
               IF partial THEN "partial" ELSE "full", DOMAIN input)

FromMongo ==
    /\ StepProxy
    /\ \E partial \in BOOLEAN : \E raw \in RawInputs(cls, partial) :
        \E seen \in SeenBefore(cls, raw) :
            LeavesFromMongo(from_mongo(cls, data, modified, not_loaded, additional_data,
                                       raw, partial, seen),
                            partial, raw)

Update ==
    /\ StepProxy
    /\ \E input \in LoadableInputs(cls) :
        Leaves(update(cls, data, modified, not_loaded, input), "update", "none",
               DOMAIN input)

\* the names a caller reads and writes with the error it asks for: item access
\* raises KeyError for a name that is no field, attribute access AttributeError
NoField == "other"

Accesses(t) ==
    [name : FieldNames(t), to_raise : {"KeyError"}]
        \cup [name : {NoField}, to_raise : {"KeyError", "AttributeError"}]

\* a set leaves in `last` the value it was given
LeavesSet(r, to_raise, name, value) ==
    /\ data' = r.data
    /\ modified' = r.modified
    /\ not_loaded' = r.not_loaded
    /\ last' = [LastOn("set", r.outcome, to_raise, {name}) EXCEPT !.raw = name :> value]
    /\ UNCHANGED <<adapter, cls, additional_data, is_created, collection, instance>>

Get ==
    /\ StepProxy
    /\ \E name \in FieldNames(cls) :
        Leaves(get(cls, data, modified, not_loaded, name, "KeyError"), "get", "none", {name})

Set ==
    /\ StepProxy
    /\ \E in \in Accesses(cls) : \E value \in FieldValues(in.name) :
        LeavesSet(set(cls, data, modified, not_loaded, in.name, value, in.to_raise),
                  in.to_raise, in.name, value)

DeleteField ==
    /\ StepProxy
    /\ \E in \in Accesses(cls) :
        Leaves(delete_field(cls, data, modified, not_loaded, in.name, in.to_raise), "delete",
               in.to_raise, {in.name})

GetByMongoName ==
    /\ StepProxy
    /\ \E key \in MongoKeys(cls) :
        Leaves(get_by_mongo_name(cls, data, modified, not_loaded, key),
               "get_by_mongo_name", "none", {FieldFromMongoKey(cls, key)})

SetByMongoName ==
    /\ StepProxy
    /\ \E key \in MongoKeys(cls) : \E value \in FieldValues(FieldFromMongoKey(cls, key)) :
        Leaves(set_by_mongo_name(cls, data, modified, not_loaded, key, value),
               "set_by_mongo_name", "none", {FieldFromMongoKey(cls, key)})

NextProxy ==
    \/ Load
    \/ FromMongo
    \/ Update
    \/ Get
    \/ Set
    \/ DeleteField
    \/ GetByMongoName
    \/ SetByMongoName

SpecProxy == InitProxy /\ [][NextProxy]_vars

\* every read and every write of the one field raises FieldNotLoadedError
Inaccessible(n, d, m, nl) ==
    /\ get(cls, d, m, nl, n, "KeyError").outcome = "FieldNotLoadedError"
    /\ delete_field(cls, d, m, nl, n, "KeyError").outcome = "FieldNotLoadedError"
    /\ get_by_mongo_name(cls, d, m, nl, MongoName(cls, n)).outcome = "FieldNotLoadedError"
    /\ \A v \in Values :
        /\ set(cls, d, m, nl, n, v, "KeyError").outcome = "FieldNotLoadedError"
        /\ set_by_mongo_name(cls, d, m, nl, MongoName(cls, n), v).outcome =
                "FieldNotLoadedError"

Accessible(n, d, m, nl) ==
    /\ get(cls, d, m, nl, n, "KeyError").outcome = "ok"
    /\ get_by_mongo_name(cls, d, m, nl, MongoName(cls, n)).outcome = "ok"
    /\ \A v \in Values :
        /\ set(cls, d, m, nl, n, v, "KeyError").outcome = "ok"
        /\ set_by_mongo_name(cls, d, m, nl, MongoName(cls, n), v).outcome = "ok"

\* what a load leaves: partial, the fields absent from the input inaccessible;
\* not partial, those fields at their default and every field accessible
AfterLoad ==
    (last.op = "load" /\ last.outcome = "ok") =>
        IF last.branch = "partial"
        THEN \A n \in FieldNames(cls) :
                IF n \in last.names
                THEN Accessible(n, data, modified, not_loaded)
                ELSE Inaccessible(n, data, modified, not_loaded)
        ELSE \A n \in FieldNames(cls) :
                /\ Accessible(n, data, modified, not_loaded)
                /\ n \notin last.names =>
                    data[MongoName(cls, n)] = SchemaFields(cls)[n].default

\* C9: a partial load leaves the fields absent from its input inaccessible:
\* every get, set and delete of such a field, by name or by storage key,
\* raises FieldNotLoadedError until the proxy is loaded again or update() is
\* given the field; a load that is not partial fills the absent fields with
\* their default and permits reading and writing them
C9_NotLoadedUntilReloadOrUpdate ==
    [][/\ AfterLoad'
       /\ \A n \in FieldNames(cls) :
            (/\ Inaccessible(n, data, modified, not_loaded)
             /\ last'.op \notin {"load", "from_mongo"}
             /\ ~(last'.op = "update" /\ last'.outcome = "ok" /\ n \in last'.names)) =>
                Inaccessible(n, data', modified', not_loaded')]_vars

C9_WriteRefused ==
    /\ last.op = "set"
    /\ last.outcome = "FieldNotLoadedError"
    /\ last.names \subseteq not_loaded
    /\ \E n \in last.names : Inaccessible(n, data, modified, not_loaded)

\* C9 as stated: the field stays inaccessible until the proxy is loaded again
C9_NotLoadedUntilReload ==
    [][\A n \in FieldNames(cls) :
        (/\ Inaccessible(n, data, modified, not_loaded)
         /\ last'.op \notin {"load", "from_mongo"}) =>
            Inaccessible(n, data', modified', not_loaded')]_vars

-----------------------------------------------------------------------------
(* Payloads after a load *)

\* the step set("age", v) that succeeds on the document class with the
\* fields name (required) and age (default 0)
SetsAge ==
    /\ cls.name = "Doc"
    /\ last'.op = "set"
    /\ last'.outcome = "ok"
    /\ last'.names = {"age"}

\* C11: after load({name: v}) and then set("age", w) the update payload has
\* no removal part and sets age to w and also name to v, which load marked
\* modified; when the values came by from_mongo the payload sets age alone
C11_LoadThenSetPayload ==
    [][SetsAge =>
        LET p == _to_mongo_update(cls, data', modified')
        IN  /\ last = LastOn("load", "ok", "full", {"name"}) =>
                /\ p.kind = "update"
                /\ p.unset = {}
                /\ data'["age"] \in FieldValues("age")
                /\ p.set = ("name" :> data["name"]) @@ ("age" :> data'["age"])
            /\ (last.op = "from_mongo" /\ last.branch = "full") =>
                /\ p.kind = "update"
                /\ p.unset = {}
                /\ p.set = ("age" :> data'["age"])]_vars

C11_SetAfterLoad ==
    /\ cls.name = "Doc"
    /\ last.op = "set"
    /\ last.outcome = "ok"
    /\ last.names = {"age"}
    /\ modified = {"name", "age"}
    /\ data["_id"] = Missing
    /\ data["age"] \in FieldValues("age")
    /\ DOMAIN _to_mongo_update(cls, data, modified).set = {"name", "age"}

\* C11 as stated: the payload sets exactly the key age
C11_PayloadIsAgeOnly ==
    [][(SetsAge /\ last = LastOn("load", "ok", "full", {"name"})) =>
        LET p == _to_mongo_update(cls, data', modified')
        IN  /\ p.kind = "update"
            /\ p.unset = {}
            /\ p.set = ("age" :> data'["age"])]_vars

-----------------------------------------------------------------------------
(* Unknown storage keys *)

\* C12: from_mongo on raw data with a storage key that no field maps to
\* raises UnknownFieldInDBError on a strict class; on a class that is not
\* strict it succeeds and keeps each unknown key with its value; the unknown
\* keys kept are in the full payload with their values, and no other
\* operation of the proxy drops or changes them
C12_UnknownKeys ==
    [][/\ (last'.op = "from_mongo" /\ ~((DOMAIN last'.raw) \subseteq MongoKeys(cls))) =>
            IF cls.strict
            THEN last'.outcome = "UnknownFieldInDBError"
            ELSE /\ last'.outcome = "ok"
                 /\ \A k \in (DOMAIN last'.raw) \ MongoKeys(cls) :
                        /\ k \in DOMAIN additional_data'
                        /\ additional_data'[k] = last'.raw[k]
       /\ last'.outcome # "UnknownFieldInDBError" =>
            \A k \in DOMAIN additional_data' :
                /\ k \in DOMAIN DataProxy_to_mongo(cls, data', additional_data')
                /\ DataProxy_to_mongo(cls, data', additional_data')[k] = additional_data'[k]
       /\ last'.op # "from_mongo" => additional_data' = additional_data]_vars

C12_UnknownKept ==
    /\ ~cls.strict
    /\ last.op = "from_mongo"
    /\ last.outcome = "ok"
    /\ "extra" \in DOMAIN last.raw
    /\ last.raw["extra"] = MaxVal
    /\ additional_data = ("extra" :> MaxVal)
    /\ DataProxy_to_mongo(cls, data, additional_data)["extra"] = MaxVal

-----------------------------------------------------------------------------
(* The instance and its builder: templates, registration, implementations *)

MaxInstanceSteps == 3

\* Meta of a template; allow_inheritance "None" when Meta does not give it,
\* collection_name "" when Meta does not give it
Meta(abstract, allow_inheritance, collection_name) ==
    [abstract |-> abstract, allow_inheritance |-> allow_inheritance,
     collection_name |-> collection_name]

\* a template class: its __name__, its __bases__, its Meta and its fields
Template(kind, name, bases, meta, fields) ==
    [kind |-> kind, name |-> name, bases |-> bases, meta |-> meta, fields |-> fields]

DocumentTemplate ==
    Template("document", "DocumentTemplate", <<>>, Meta(TRUE, "None", ""), EmptyMap)

EmbeddedDocumentTemplate ==
    Template("embedded", "EmbeddedDocumentTemplate", <<>>, Meta(TRUE, "None", ""), EmptyMap)

PlainField == BaseField(NoAttr, FALSE, FALSE, FALSE, Missing, FALSE)

AnimalTemplates ==
    {Template("document", "Animal", <<DocumentTemplate>>, meta, ("name" :> PlainField)) :
        meta \in {Meta(FALSE, "True", ""), Meta(FALSE, "None", ""), Meta(TRUE, "None", ""),
                  Meta(FALSE, "True", "zoo"), Meta(TRUE, "None", "zoo"),
                  Meta(TRUE, "False", "")}}

\* the Animal templates whose implementation can be built
AnimalBases ==
    {t \in AnimalTemplates : ~(t.meta.abstract /\ t.meta.collection_name # "")
                             /\ ~(t.meta.abstract /\ t.meta.allow_inheritance = "False")}

\* the Animal templates with no Meta.collection_name that allow inheritance
OpenAnimals ==
    {t \in AnimalBases : /\ t.meta.allow_inheritance # "None" \/ t.meta.abstract
                         /\ t.meta.collection_name = ""}

ConcreteAnimals == {t \in OpenAnimals : ~t.meta.abstract}

DogTemplates ==
    {Template("document", "Dog", <<base>>, meta, ("age" :> PlainField)) :
        base \in AnimalBases,
        meta \in {Meta(FALSE, "True", ""), Meta(TRUE, "None", ""),
                  Meta(FALSE, "True", "kennel")}}
    \cup
    {Template("document", "Dog", <<base>>, Meta(FALSE, "True", ""),
              ("file_id" :> BaseField("_id", FALSE, FALSE, FALSE, Missing, FALSE))) :
        base \in ConcreteAnimals}

CatTemplates ==
    {Template("document", "Cat", <<base>>, Meta(FALSE, "None", ""), ("age" :> PlainField)) :
        base \in OpenAnimals}
    \cup
    {Template("document", "Cat", <<base>>, Meta(FALSE, "None", ""),
              ("alias" :> BaseField("name", FALSE, FALSE, FALSE, Missing, FALSE))) :
        base \in ConcreteAnimals}

PuppyTemplates ==
    {Template("document", "Puppy", <<base>>, Meta(FALSE, "None", ""), EmptyMap) :
        base \in {t \in DogTemplates : /\ t.fields = ("age" :> PlainField)
                                       /\ t.bases[1] \in OpenAnimals
                                       /\ t.meta.collection_name = ""
                                       /\ t.meta.abstract => t.bases[1].meta.abstract}}

PartTemplate ==
    Template("embedded", "Part", <<EmbeddedDocumentTemplate>>, Meta(FALSE, "None", ""),
             ("name" :> PlainField))

EmbeddedTemplates ==
    {PartTemplate,
     Template("embedded", "SubPart", <<PartTemplate>>, Meta(FALSE, "None", ""), EmptyMap),
     Template("embedded", "Animal", <<EmbeddedDocumentTemplate>>, Meta(FALSE, "None", ""),
              EmptyMap)}

\* the templates the application declares
InstanceTemplates ==
    AnimalTemplates \cup DogTemplates \cup CatTemplates \cup PuppyTemplates
        \cup EmbeddedTemplates

\* the calls of register: the templates that inherit another are registered
\* with as_attribute left at its default
RegisterInputs ==
    {in \in [template : InstanceTemplates, as_attribute : BOOLEAN] :
        in.as_attribute \/ Len(in.template.bases[1].bases) = 0}

camel_to_snake(name) ==
    CASE name = "Animal" -> "animal"
      [] name = "Dog" -> "dog"
      [] name = "Cat" -> "cat"
      [] name = "Puppy" -> "puppy"
      [] OTHER -> name

\* DocumentOpts.__init__ and EmbeddedDocumentOpts.__init__: the opts of a class
Opts(abstract, allow_inheritance, collection_name, is_child, strict) ==
    [abstract |-> abstract, allow_inheritance |-> allow_inheritance,
     collection_name |-> IF abstract THEN "" ELSE collection_name,
     is_child |-> is_child, strict |-> strict]

\* an implementation: the class type(name, bases, nmspc) creates
ImplementationOf(template, bases, opts, schema) ==
    [template |-> template, name |-> template.name, kind |-> template.kind,
     bases |-> bases, opts |-> opts, schema |-> schema]

BASE_DOCUMENT_CLS ==
    ImplementationOf(DocumentTemplate, <<>>, Opts(TRUE, TRUE, "", TRUE, TRUE), EmptyMap)

EmbeddedDocumentImplementation ==
    ImplementationOf(EmbeddedDocumentTemplate, <<>>, Opts(TRUE, TRUE, "", FALSE, TRUE),
                     EmptyMap)

\* the names hasattr finds on an instance before anything is registered
InstanceAttributes ==
    {"BUILDER_CLS", "builder", "_doc_lookup", "_embedded_lookup", "db", "_db", "init",
     "retrieve_document", "retrieve_embedded_document", "register", "_register_doc",
     "_register_embedded_doc"}

\* BaseInstance.__init__ and BaseBuilder.__init__
NewInstance ==
    [built |-> <<BASE_DOCUMENT_CLS, EmbeddedDocumentImplementation>>,
     offspring |-> <<{}, {}>>,
     templates_lookup |-> (DocumentTemplate :> 1) @@ (EmbeddedDocumentTemplate :> 2),
     doc_lookup |-> EmptyMap,
     embedded_lookup |-> EmptyMap,
     attributes |-> InstanceAttributes]

\* the implementations among bases that the loops of the builder look at
BasesOfKind(inst, bases, kind) == SelectSeq(bases, LAMBDA b : inst.built[b].kind = kind)

_convert_bases(inst, template) ==
    IF \E i \in 1 .. Len(template.bases) : template.bases[i] \notin DOMAIN inst.templates_lookup
    THEN [outcome |-> "NotRegisteredDocumentError", bases |-> <<>>]
    ELSE [outcome |-> "ok",
          bases |-> [i \in 1 .. Len(template.bases) |->
                        inst.templates_lookup[template.bases[i]]]]

RECURSIVE OptsLoop(_, _, _, _)
\* the loop of _build_document_opts over the bases: the error it raises and
\* the collection name it is left with
OptsLoop(inst, bases, abstract, collection_name) ==
    IF bases = <<>> THEN [error |-> "", collection_name |-> collection_name]
    ELSE LET popts == inst.built[Head(bases)].opts
         IN  IF ~popts.allow_inheritance
             THEN [error |-> "doesn't allow inheritance", collection_name |-> collection_name]
             ELSE IF abstract /\ ~popts.abstract
             THEN [error |-> "Abstract document should have all it parents abstract",
                   collection_name |-> collection_name]
             ELSE IF popts.collection_name # "" /\ collection_name # ""
             THEN [error |-> "Cannot redefine collection_name in a child",
                   collection_name |-> collection_name]
             ELSE OptsLoop(inst, Tail(bases), abstract,
                           IF popts.collection_name # "" THEN popts.collection_name
                           ELSE collection_name)

\* the end of _build_document_opts once the loop gave loop, and DocumentOpts
DocumentOptsAfter(template, is_child, loop) ==
    LET meta == template.meta
        allow_inheritance == IF meta.allow_inheritance = "None" THEN meta.abstract
                             ELSE meta.allow_inheritance = "True"
        collection_name == IF loop.collection_name = "" /\ ~meta.abstract
                           THEN camel_to_snake(template.name)
                           ELSE loop.collection_name
    IN  IF loop.error # "" THEN [error |-> loop.error, opts |-> BASE_DOCUMENT_CLS.opts]
        ELSE IF loop.collection_name # "" /\ meta.abstract
        THEN [error |-> "Abstract document cannot define collection_name",
              opts |-> BASE_DOCUMENT_CLS.opts]
        ELSE IF meta.abstract /\ ~allow_inheritance
        THEN [error |-> "Abstract document cannot disable inheritance",
              opts |-> BASE_DOCUMENT_CLS.opts]
        ELSE [error |-> "",
              opts |-> Opts(meta.abstract, allow_inheritance, collection_name, is_child,
                            TRUE)]

\* a _build_document_opts that does not look at the opts of the bases
_build_document_opts_alone(inst, template, bases) ==
    DocumentOptsAfter(
        template,
        \E i \in 1 .. Len(bases) :
            inst.built[bases[i]].kind = "document" /\ ~inst.built[bases[i]].opts.abstract,
        [error |-> "", collection_name |-> template.meta.collection_name])

_build_document_opts(inst, template, bases) ==
    DocumentOptsAfter(
        template,
        \E i \in 1 .. Len(bases) :
            inst.built[bases[i]].kind = "document" /\ ~inst.built[bases[i]].opts.abstract,
        OptsLoop(inst, BasesOfKind(inst, bases, "document"), template.meta.abstract,
                 template.meta.collection_name))

_build_embedded_document_opts(inst, template, bases) ==
    LET meta == template.meta
        parents == BasesOfKind(inst, bases, "embedded")
        allow_inheritance == meta.allow_inheritance # "False"
        is_child == \E i \in 1 .. Len(bases) :
                        inst.built[bases[i]].kind = "embedded" /\ bases[i] # 2
    IN  IF \E i \in 1 .. Len(parents) : ~inst.built[parents[i]].opts.allow_inheritance
        THEN [error |-> "doesn't allow inheritance", opts |-> BASE_DOCUMENT_CLS.opts]
        ELSE IF meta.abstract /\ \E i \in 1 .. Len(parents) : ~inst.built[parents[i]].opts.abstract
        THEN [error |-> "Abstract embedded document should have all it parents abstract",
              opts |-> BASE_DOCUMENT_CLS.opts]
        ELSE IF meta.abstract /\ ~allow_inheritance
        THEN [error |-> "Abstract embedded document cannot disable inheritance",
              opts |-> BASE_DOCUMENT_CLS.opts]
        ELSE [error |-> "", opts |-> Opts(meta.abstract, allow_inheritance, "", is_child, TRUE)]

RECURSIVE InheritedFields(_, _)
\* the fields of the schemas of the bases, the first base first
InheritedFields(inst, bases) ==
    IF bases = <<>> THEN EmptyMap
    ELSE inst.built[Head(bases)].schema @@ InheritedFields(inst, Tail(bases))

\* the fields of the schema class built for the template
_build_schema(template, is_child, inherited) ==
    LET with_id == IF template.kind = "document"
                   THEN on_need_add_id_field(inherited, template.fields)
                   ELSE template.fields
        own == IF is_child THEN add_child_field(template.name, with_id) ELSE with_id
    IN  own @@ inherited

RECURSIVE getmro(_, _)
\* the classes of inspect.getmro(base) built by this builder, base among them
getmro(inst, base) ==
    {base} \cup UNION {getmro(inst, inst.built[base].bases[i]) :
                        i \in 1 .. Len(inst.built[base].bases)}

\* the classes told of a newborn: the parents and grand parents of its kind
\* other than the root class of the kind
Notified(inst, bases, kind) ==
    {parent \in UNION {getmro(inst, bases[i]) : i \in 1 .. Len(bases)} :
        /\ inst.built[parent].kind = kind
        /\ parent # (IF kind = "document" THEN 0 ELSE 2)}

\* build_document_from_template and build_embedded_document_from_template
\* once the bases are converted and the opts are built
build_from_template(inst, template, bases, o) ==
    IF o.error # ""
    THEN [outcome |-> "DocumentDefinitionError", error |-> o.error, instance |-> inst,
          implementation |-> 0]
    ELSE [outcome |-> "ok", error |-> "",
          instance |->
            [inst EXCEPT
                !.built = Append(@, ImplementationOf(template, bases, o.opts,
                                    _build_schema(template, o.opts.is_child,
                                                  InheritedFields(inst, bases)))),
                !.offspring = [i \in 1 .. Len(inst.built) + 1 |->
                                IF i = Len(inst.built) + 1 THEN {}
                                ELSE IF i \in Notified(inst, bases, template.kind)
                                THEN @[i] \cup {Len(inst.built) + 1}
                                ELSE @[i]],
                !.templates_lookup = (template :> Len(inst.built) + 1) @@ @],
          implementation |-> Len(inst.built) + 1]

\* the builder's build of the template, of either kind
build(inst, template, converted) ==
    IF converted.outcome # "ok"
    THEN [outcome |-> converted.outcome, error |-> "", instance |-> inst,
          implementation |-> 0]
    ELSE build_from_template(inst, template, converted.bases,
            IF template.kind = "document"
            THEN _build_document_opts(inst, template, converted.bases)
            ELSE _build_embedded_document_opts(inst, template, converted.bases))

\* _register_doc and _register_embedded_doc, then the setattr of register,
\* once the builder gave b
registered(template, as_attribute, b) ==
    IF b.outcome # "ok" THEN b
    ELSE IF template.name \in b.instance.attributes
    THEN [b EXCEPT !.outcome = "AlreadyRegisteredDocumentError"]
    ELSE [b EXCEPT
            !.instance.doc_lookup =
                IF template.kind = "document" THEN (template.name :> b.implementation) @@ @
                ELSE @,
            !.instance.embedded_lookup =
                IF template.kind = "embedded" THEN (template.name :> b.implementation) @@ @
                ELSE @,
            !.instance.attributes =
                IF as_attribute THEN @ \cup {template.name} ELSE @]

register(inst, template, as_attribute) ==
    registered(template, as_attribute, build(inst, template, _convert_bases(inst, template)))

-----------------------------------------------------------------------------
(* Queries of a document class *)

\* a filter given to find: None, a dict of field values, or a bare id
NoFilter == [kind |-> "None", dict |-> EmptyMap, id |-> 0]

DictFilter(dict) == [kind |-> "dict", dict |-> dict, id |-> 0]

IdFilter(id) == [kind |-> "id", dict |-> EmptyMap, id |-> id]

\* the filter handed to the driver: for a dict, the values admitted under each key
Cooked(kind, dict, id) == [kind |-> kind, dict |-> dict, id |-> id]

\* bool(filter) of Python
Truthy(filter) ==
    \/ filter.kind = "dict" /\ filter.dict # EmptyMap
    \/ filter.kind = "id" /\ filter.id # 0

\* the names given to '_cls' by cook_find_filter, as the stored discriminators
ClsNames(inst, doc_cls) ==
    {ClassName(inst.built[o].name) : o \in inst.offspring[doc_cls]}
        \cup {ClassName(inst.built[doc_cls].name)}

\* a cook_find_filter that leaves the filter of the caller as it is
cook_find_filter_plain(inst, doc_cls, filter, mapped) ==
    Cooked(filter.kind, [k \in DOMAIN mapped |-> {mapped[k]}], filter.id)

\* cook_find_filter, mapped being map_query(filter, doc_cls.schema.fields)
cook_find_filter(inst, doc_cls, filter, mapped) ==
    IF inst.built[doc_cls].opts.is_child
    THEN LET as_dict == IF ~Truthy(filter) THEN EmptyMap
                        ELSE IF filter.kind = "id" THEN ("_id" :> filter.id)
                        ELSE mapped
         IN  Cooked("dict",
                    [k \in (DOMAIN as_dict) \cup {"_cls"} |->
                        IF k = "_cls" THEN ClsNames(inst, doc_cls) ELSE {as_dict[k]}],
                    0)
    ELSE Cooked(filter.kind, [k \in DOMAIN mapped |-> {mapped[k]}], filter.id)

\* the documents of the collection the driver matches with the cooked filter
MatchesFind(doc, cooked) ==
    CASE cooked.kind = "None" -> TRUE
      [] cooked.kind = "id" -> doc["_id"] = cooked.id
      [] cooked.kind = "dict" ->
            \A k \in DOMAIN cooked.dict : k \in DOMAIN doc /\ doc[k] \in cooked.dict[k]

FindKinds == {"find", "find_one", "count_documents"}

\* find, find_one and count_documents (count in txmongo) of a document
\* class: the filter handed to the driver and the stored documents it matches
find(inst, doc_cls, coll, filter, kind) ==
    IF inst.built[doc_cls].opts.abstract
    THEN [outcome |-> "NoDBDefinedError", filter |-> NoFilter, matched |-> {}]
    ELSE [outcome |-> "ok",
          filter |-> cook_find_filter(inst, doc_cls,
                        IF kind = "count_documents" /\ ~Truthy(filter) THEN DictFilter(EmptyMap)
                        ELSE filter,
                        map_query(inst.built[doc_cls], filter.dict)),
          matched |-> {doc \in coll :
                        MatchesFind(doc,
                            cook_find_filter(inst, doc_cls,
                                IF kind = "count_documents" /\ ~Truthy(filter)
                                THEN DictFilter(EmptyMap) ELSE filter,
                                map_query(inst.built[doc_cls], filter.dict)))}]

\* the documents stored in the collection: one written by each class
ZooDocs ==
    {("_id" :> 1) @@ ("name" :> 1),
     ("_id" :> 2) @@ ("name" :> 1) @@ ("_cls" :> ClassName("Dog")),
     ("_id" :> 3) @@ ("name" :> 2) @@ ("_cls" :> ClassName("Cat")),
     ("_id" :> 4) @@ ("name" :> 2) @@ ("_cls" :> ClassName("Puppy"))}

\* the filters of the callers; a bare id goes to find_one, or to any query of
\* a class that shares its collection
FindFilters ==
    {NoFilter, DictFilter(EmptyMap), IdFilter(0), IdFilter(2), IdFilter(3),
     DictFilter(("name" :> 2)), DictFilter(("id" :> 3)),
     DictFilter(("cls" :> ClassName("Cat"))), DictFilter(("_cls" :> ClassName("Cat")))}

\* the document classes registered in the instance
Registered(inst) == {inst.doc_lookup[n] : n \in DOMAIN inst.doc_lookup}

FindInputs(inst) ==
    {in \in [doc_cls : Registered(inst), filter : FindFilters, kind : FindKinds] :
        in.filter.kind = "id" =>
            (in.kind = "find_one" \/ inst.built[in.doc_cls].opts.is_child)}

-----------------------------------------------------------------------------
(* The instance alone: registrations and queries *)

InitInstance ==
    /\ adapter = "pymongo"
    /\ cls = BASE_DOCUMENT_CLS
    /\ data = EmptyMap
    /\ modified = {}
    /\ not_loaded = {}
    /\ additional_data = EmptyMap
    /\ is_created = FALSE
    /\ collection = ZooDocs
    /\ instance = NewInstance
    /\ last = NoLast
    /\ steps = 0

StepInstance == steps < MaxInstanceSteps /\ steps' = steps + 1

\* the instance and the trace left by a registration of template that gave r
LeavesRegistered(r, template) ==
    /\ instance' = r.instance
    /\ last' = LastOn("register", r.outcome, r.error, {template.name})
    /\ UNCHANGED <<adapter, cls, data, modified, not_loaded, additional_data, is_created,
                   collection>>

Register ==
    /\ StepInstance
    /\ \E in \in RegisterInputs :
        LeavesRegistered(register(instance, in.template, in.as_attribute), in.template)

\* the trace left by a query that gave r, of which the caller took found
LeavesFound(r, in, found) ==
    /\ last' = [found |-> found] @@
                LastOn(in.kind, r.outcome, in.filter.kind, {instance.built[in.doc_cls].name})
    /\ UNCHANGED <<adapter, cls, data, modified, not_loaded, additional_data, is_created,
                   collection, instance>>

Find ==
    /\ StepInstance
    /\ \E in \in FindInputs(instance) :
        \E found \in IF in.kind = "find_one"
                      THEN IF find(instance, in.doc_cls, collection, in.filter, in.kind).matched = {}
                           THEN {{}}
                           ELSE {{doc["_id"]} : doc \in find(instance, in.doc_cls, collection,
                                                             in.filter, in.kind).matched}
                      ELSE {{doc["_id"] : doc \in find(instance, in.doc_cls, collection,
                                                       in.filter, in.kind).matched}} :
            LeavesFound(find(instance, in.doc_cls, collection, in.filter, in.kind), in, found)

NextInstance == Register \/ Find

SpecInstance == InitInstance /\ [][NextInstance]_vars
-----------------------------------------------------------------------------
(* C13: queries of a child class are scoped to its own kind *)

\* the discriminators of doc_cls and of its descendants registered in inst
OwnKind(inst, doc_cls) ==
    {ClassName(inst.built[doc_cls].name)} \cup
    {ClassName(inst.built[o].name) :
        o \in {d \in Registered(inst) : d # doc_cls /\ doc_cls \in getmro(inst, d)}}

\* C13: a base class that is no child finds every stored document with an
\* empty filter; find, find_one and count_documents of a child class match
\* only stored documents whose discriminator is the name of the class or of
\* one of its descendants registered at that time, whatever the filter is,
\* a bare id or a filter on the discriminator included.
C13_FindScoped ==
    \A in \in FindInputs(instance) :
        LET r == find(instance, in.doc_cls, collection, in.filter, in.kind)
        IN  r.outcome = "ok" =>
                IF instance.built[in.doc_cls].opts.is_child
                THEN \A doc \in r.matched :
                        /\ "_cls" \in DOMAIN doc
                        /\ doc["_cls"] \in OwnKind(instance, in.doc_cls)
                ELSE in.filter \in {NoFilter, DictFilter(EmptyMap)} => r.matched = collection

\* Dog.find with an id that a stored Cat has found nothing, next to a
\* registered Animal that shares its collection
C13_DogFindsNoCat ==
    /\ last.op = "find_one"
    /\ last.names = {"Dog"}
    /\ last.branch = "id"
    /\ "found" \in DOMAIN last /\ last.found = {}
    /\ "Animal" \in DOMAIN instance.doc_lookup
    /\ "Dog" \in DOMAIN instance.doc_lookup
    /\ instance.built[instance.doc_lookup["Dog"]].opts.is_child

-----------------------------------------------------------------------------
(* C14: the discriminator of a child document *)

\* the operations of the data proxy behind the constructor, update(), item
\* and attribute assignment and deletion
UserWrites == {"load", "update", "set", "delete"}

\* C14: on a child document whose stored _cls is the name of its class, no
\* constructor argument, update(), item or attribute assignment or deletion
\* changes the stored value of _cls.
C14_DiscriminatorKept ==
    [][(/\ "cls" \in FieldNames(cls)
        /\ data["_cls"] = ClassName(cls.name)
        /\ last'.op \in UserWrites)
       => data'["_cls"] = ClassName(cls.name)]_vars

-----------------------------------------------------------------------------
(* C15: registering a name that is taken *)

\* the names under which a document or an embedded document is registered
RegisteredNames(inst) == (DOMAIN inst.doc_lookup) \cup (DOMAIN inst.embedded_lookup)

\* C15: register of a template whose name is already registered in the
\* instance, as a document or as an embedded document, with or without
\* as_attribute, raises AlreadyRegisteredDocumentError once the builder has
\* built the template.
C15_NameTaken ==
    \A in \in RegisterInputs :
        (/\ in.template.name \in RegisteredNames(instance)
         /\ build(instance, in.template, _convert_bases(instance, in.template)).outcome = "ok")
        => register(instance, in.template, in.as_attribute).outcome
                = "AlreadyRegisteredDocumentError"

-----------------------------------------------------------------------------
(* C16: one implementation for each template of an instance *)

\* the implementations the builder of inst has created
Built(inst) == 1 .. Len(inst.built)

\* C16: the builder has created at most one implementation of each template,
\* the one its lookup gives for the template, and the implementations of two
\* templates that inherit the same template are built on the same
\* implementation of it.
C16_BuiltOnce ==
    /\ \A i, j \in Built(instance) :
        instance.built[i].template = instance.built[j].template => i = j
    /\ \A i \in Built(instance) :
        instance.templates_lookup[instance.built[i].template] = i
    /\ \A i, j \in Built(instance) :
        \A k \in 1 .. Len(instance.built[i].bases) :
            \A l \in 1 .. Len(instance.built[j].bases) :
                instance.built[i].template.bases[k] = instance.built[j].template.bases[l]
                    => instance.built[i].bases[k] = instance.built[j].bases[l]

-----------------------------------------------------------------------------
(* C17: the options a document inherits *)

\* the document templates whose bases the builder of inst has built
Buildable(inst) ==
    {t \in InstanceTemplates :
        t.kind = "document" /\ _convert_bases(inst, t).outcome = "ok"}

\* the implementations of documents the template t inherits in inst
DocumentAncestors(inst, t) ==
    {a \in UNION {getmro(inst, _convert_bases(inst, t).bases[i]) :
                    i \in 1 .. Len(t.bases)} :
        inst.built[a].kind = "document"}

\* the conditions under which the claim has the build fail
MustFail(inst, t) ==
    \/ \E a \in DocumentAncestors(inst, t) : ~inst.built[a].opts.allow_inheritance
    \/ t.meta.abstract /\ \E a \in DocumentAncestors(inst, t) : ~inst.built[a].opts.abstract
    \/ /\ t.meta.collection_name # ""
       /\ \E a \in DocumentAncestors(inst, t) : inst.built[a].opts.collection_name # ""
    \/ /\ t.meta.abstract
       /\ \/ t.meta.collection_name # ""
          \/ \E a \in DocumentAncestors(inst, t) : inst.built[a].opts.collection_name # ""

\* C17: the build of a document template fails with DocumentDefinitionError
\* whenever an ancestor does not allow inheritance, or the template is
\* abstract with an ancestor that is not, or it names a collection while an
\* ancestor has one, or it is abstract with a collection name; and every
\* class the builder has built that is not abstract has the collection_name
\* of each of its ancestors that are not abstract.
C17_InheritedOpts ==
    /\ \A t \in Buildable(instance) :
        MustFail(instance, t)
            => build(instance, t, _convert_bases(instance, t)).outcome
                    = "DocumentDefinitionError"
    /\ \A i \in Built(instance) :
        (instance.built[i].kind = "document" /\ ~instance.built[i].opts.abstract)
        => \A a \in getmro(instance, i) :
                ~instance.built[a].opts.abstract
                => instance.built[a].opts.collection_name
                        = instance.built[i].opts.collection_name

\* an abstract Dog was refused next to a registered Dog that shares the
\* collection named by its parent Animal
C17_RefusedNextToChild ==
    /\ last.op = "register"
    /\ last.outcome = "DocumentDefinitionError"
    /\ last.branch = "Abstract document should have all it parents abstract"
    /\ "Dog" \in DOMAIN instance.doc_lookup
    /\ instance.built[instance.doc_lookup["Dog"]].opts.is_child
    /\ instance.built[instance.doc_lookup["Dog"]].opts.collection_name = "zoo"

-----------------------------------------------------------------------------
(* C18: the storage keys of a schema *)

\* C18: in the schema of every class the builder has built, with its own
\* fields, the inherited ones, the id field and the discriminator, no two
\* fields have the same storage key.
C18_UniqueStorageKeys ==
    \A i \in Built(instance) :
        \A n, o \in DOMAIN instance.built[i].schema :
            AttrOrName(instance.built[i].schema[n], n)
                = AttrOrName(instance.built[i].schema[o], o)
            => n = o

-----------------------------------------------------------------------------
(* C19: the I/O validators of one commit *)

\* the validators attached to the fields of scope: the field and the place
\* in its list
ValidatorsOf(scope, runs) ==
    UNION {{<<n, i>> : i \in 1 .. Len(runs[n])} : n \in scope}

\* the validators run by adapter a for the fields it reached
ValidatorsRun(a, reached, runs) ==
    UNION {{<<n, i>> : i \in _run_validators(a, runs[n]).ran} : n \in reached}

\* the fields of scope with a validator that fails with a validation error
Invalid(scope, runs) ==
    {n \in scope : \E i \in 1 .. Len(runs[n]) : runs[n][i] = "invalid"}

-----------------------------------------------------------------------------
(* C20: the fields validated before an insert *)

\* the fields of the document that hold a value and have I/O validators
Validatable(t, d) ==
    {n \in FieldNames(t) : d[MongoName(t, n)] # Missing /\ SchemaFields(t)[n].io_validate}

\* the inputs of a commit in which no validator fails with another error
NoneRaising(in) ==
    \A n \in DOMAIN in.vres : \A i \in 1 .. Len(in.vres[n]) : in.vres[n][i] # "error"

\* C20 as stated: the commit of a new document that reaches the I/O
\* validation runs the validators of every field that holds a value, the
\* fields that only hold their default among them.
C20_InsertValidatesEveryField ==
    ~is_created =>
        \A in \in CommitInputs :
            LET r == commit(adapter, cls, data, modified, not_loaded, is_created,
                            collection, in)
            IN  (Position(r.log, "io_validate") > 0 /\ NoneRaising(in))
                    => r.validated = Validatable(cls, data)

\* C20: the commit of a new document that reaches the I/O validation runs,
\* before the insert, the validators of the fields that hold a value and
\* are marked modified; a field that only holds its default and was never
\* set is validated when io_validate_all is given or when no field of the
\* document is marked modified, and not otherwise.
C20_InsertValidatesModified ==
    ~is_created =>
        \A in \in CommitInputs :
            LET r == commit(adapter, cls, data, modified, not_loaded, is_created,
                            collection, in)
            IN  (Position(r.log, "io_validate") > 0 /\ NoneRaising(in))
                    => /\ r.validated =
                            {n \in Validatable(cls, data) :
                                \/ in.io_validate_all
                                \/ modified = {}
                                \/ MongoName(cls, n) \in modified}
                       /\ Position(r.log, "insert_one") > 0
                            => Position(r.log, "io_validate") < Position(r.log, "insert_one")

\* the commit of a new document built with a name has failed on the
\* validator of name, and the validator of age, which holds its default,
\* was not run
C20_DefaultNotValidated ==
    /\ last.op = "commit"
    /\ last.outcome = "ValidationError"
    /\ ~is_created
    /\ modified = {"name"}
    /\ data["age"] = 0
    /\ "age" \in Validatable(cls, data)
    /\ \E in \in CommitInputs :
        /\ ~in.io_validate_all
        /\ commit(adapter, cls, data, modified, not_loaded, is_created,
                  collection, in).validated = {"name"}

-----------------------------------------------------------------------------
(* C21: the fields validated by io_validate *)

\* C21: a commit that reaches the I/O validation without io_validate_all
\* runs the validators of exactly the fields of get_modified_fields() that
\* hold a value, also when no field is modified; with io_validate_all it
\* runs those of every field that holds a value.
C21_ValidatesModifiedOnly ==
    \A in \in CommitInputs :
        LET r == commit(adapter, cls, data, modified, not_loaded, is_created,
                        collection, in)
        IN  (Position(r.log, "io_validate") > 0 /\ NoneRaising(in))
                => r.validated =
                        IF in.io_validate_all THEN Validatable(cls, data)
                        ELSE Validatable(cls, data)
                                \cap get_modified_fields(cls, data, modified)

-----------------------------------------------------------------------------
(* The registerer of builders *)

MaxRegistererSteps == 3

\* the builders of the application: MyBuilder is a subclass of PyMongoBuilder
\* registered to overload it
Builders == {"PyMongoBuilder", "MyBuilder", "MotorAsyncIOBuilder"}

\* the databases handed to find_from_db, by the class of the handle
Dbs == {"pymongo.Database", "AsyncIOMotorDatabase", "dict"}

\* builder.is_compatible_with(db)
is_compatible_with(builder, db) ==
    CASE builder = "MotorAsyncIOBuilder" -> db = "AsyncIOMotorDatabase"
      [] OTHER -> db = "pymongo.Database"

\* a registerer and the calls made on it so far
Registerer(builders, calls) == [builders |-> builders, calls |-> calls]

\* a register that puts the new builder behind the older ones
BuilderRegisterer_register_behind(builders, builder) ==
    IF \E i \in 1 .. Len(builders) : builders[i] = builder THEN builders
    ELSE Append(builders, builder)

\* BuilderRegisterer.register: the list of builders it leaves
BuilderRegisterer_register(builders, builder) ==
    IF \E i \in 1 .. Len(builders) : builders[i] = builder THEN builders
    ELSE <<builder>> \o builders

\* BuilderRegisterer.unregister: list.remove raises ValueError when the
\* builder is not in the list
BuilderRegisterer_unregister(builders, builder) ==
    IF \E i \in 1 .. Len(builders) : builders[i] = builder
    THEN [outcome |-> "ok", builders |-> SelectSeq(builders, LAMBDA b : b # builder)]
    ELSE [outcome |-> "ValueError", builders |-> builders]

\* BuilderRegisterer.find_from_db
find_from_db(builders, db) ==
    IF \E i \in 1 .. Len(builders) : is_compatible_with(builders[i], db)
    THEN [outcome |-> "ok",
          builder |-> builders[CHOOSE i \in 1 .. Len(builders) :
                                /\ is_compatible_with(builders[i], db)
                                /\ \A j \in 1 .. (i - 1) :
                                    ~is_compatible_with(builders[j], db)]]
    ELSE [outcome |-> "NoCompatibleBuilderError", builder |-> ""]

\* BuilderRegisterer.__init__
InitRegisterer ==
    /\ adapter = "pymongo"
    /\ cls = BASE_DOCUMENT_CLS
    /\ data = EmptyMap
    /\ modified = {}
    /\ not_loaded = {}
    /\ additional_data = EmptyMap
    /\ is_created = FALSE
    /\ collection = {}
    /\ instance = Registerer(<<>>, <<>>)
    /\ last = NoLast
    /\ steps = 0

StepRegisterer == steps < MaxRegistererSteps /\ steps' = steps + 1

\* the registerer and the trace left by a call op on builder that left
\* builders and ended with outcome, giving found
LeavesRegisterer(op, builder, builders, outcome, found) ==
    /\ instance' = Registerer(builders,
                              Append(instance.calls, [op |-> op, builder |-> builder]))
    /\ last' = LastOn(op, outcome, found, {builder})
    /\ UNCHANGED <<adapter, cls, data, modified, not_loaded, additional_data, is_created,
                   collection>>

RegisterBuilder ==
    /\ StepRegisterer
    /\ \E builder \in Builders :
        LeavesRegisterer("register", builder,
                         BuilderRegisterer_register(instance.builders, builder), "ok", "")

UnregisterBuilder ==
    /\ StepRegisterer
    /\ \E builder \in Builders :
        LeavesRegisterer("unregister", builder,
                         BuilderRegisterer_unregister(instance.builders, builder).builders,
                         BuilderRegisterer_unregister(instance.builders, builder).outcome,
                         "")

FindFromDb ==
    /\ StepRegisterer
    /\ \E db \in Dbs :
        /\ last' = LastOn("find_from_db", find_from_db(instance.builders, db).outcome,
                          find_from_db(instance.builders, db).builder, {db})
        /\ UNCHANGED <<adapter, cls, data, modified, not_loaded, additional_data,
                       is_created, collection, instance>>

NextRegisterer == RegisterBuilder \/ UnregisterBuilder \/ FindFromDb

SpecRegisterer == InitRegisterer /\ [][NextRegisterer]_vars

-----------------------------------------------------------------------------
(* C22: the builder found for a database *)

\* builder is registered after the first n calls: its last call was a register
IsRegistered(calls, n, builder) ==
    /\ \E i \in 1 .. n : calls[i].builder = builder
    /\ calls[CHOOSE i \in 1 .. n :
                /\ calls[i].builder = builder
                /\ \A j \in (i + 1) .. n : calls[j].builder # builder].op = "register"

\* the call that registered builder: the last register that found it
\* unregistered
RegisteredAt(calls, builder) ==
    CHOOSE i \in 1 .. Len(calls) :
        /\ calls[i] = [op |-> "register", builder |-> builder]
        /\ ~IsRegistered(calls, i - 1, builder)
        /\ \A j \in (i + 1) .. Len(calls) :
            calls[j] # [op |-> "unregister", builder |-> builder]

\* C22: after any calls of register and unregister, find_from_db(db) gives,
\* among the registered builders compatible with db, the one registered
\* last (a register of a builder that is registered registers nothing),
\* and raises NoCompatibleBuilderError when there is none.
C22_MostRecentCompatible ==
    \A db \in Dbs :
        LET compatible == {b \in Builders :
                            /\ IsRegistered(instance.calls, Len(instance.calls), b)
                            /\ is_compatible_with(b, db)}
            r == find_from_db(instance.builders, db)
        IN  IF compatible = {} THEN r.outcome = "NoCompatibleBuilderError"
            ELSE /\ r.outcome = "ok"
                 /\ r.builder \in compatible
                 /\ \A b \in compatible :
                        RegisteredAt(instance.calls, b)
                            <= RegisteredAt(instance.calls, r.builder)

\* with PyMongoBuilder registered first and MyBuilder after it, the builder
\* found for a pymongo database is MyBuilder
C22_LaterBuilderFound ==
    /\ last.op = "find_from_db"
    /\ last.names = {"pymongo.Database"}
    /\ last.branch = "MyBuilder"
    /\ instance.builders = <<"MyBuilder", "PyMongoBuilder">>

-----------------------------------------------------------------------------
(* Queries with dotted paths, operators and nested values *)

MaxQueryDepth == 3

\* the number of operations on a reference and its store
MaxReferenceSteps == 3

\* the number of operations on a document holding lists and embedded documents
MaxNestedSteps == 3

\* a field of a schema as map_entry reads it: its attribute, whether it is
\* an EmbeddedField, a ListField or another field, the kind of the container
\* of a ListField, and the schema of the embedded document class
QueryField(attribute, kind, container, embedded_document_cls) ==
    [attribute |-> attribute, kind |-> kind, container |-> container,
     embedded_document_cls |-> embedded_document_cls]

\* schema.fields of the document class Doc and of its embedded document Part
QuerySchema(schema) ==
    CASE schema = "Doc" ->
            [name |-> QueryField("n", "field", "", ""),
             age |-> QueryField(NoAttr, "field", "", ""),
             part |-> QueryField("p", "embedded", "", "Part"),
             parts |-> QueryField(NoAttr, "list", "embedded", "Part"),
             tags |-> QueryField("t", "list", "field", "")]
      [] schema = "Part" ->
            [name |-> QueryField("pn", "field", "", ""),
             size |-> QueryField(NoAttr, "field", "", "")]

\* the values of a query: a scalar, a list of values, or a dict whose
\* entries have a key, the segments of entry.split('.'), and a value
Scalar(v) == [kind |-> "scalar", v |-> v, elems |-> <<>>, entries |-> {}]

List(elems) == [kind |-> "list", v |-> 0, elems |-> elems, entries |-> {}]

Dict(entries) == [kind |-> "dict", v |-> 0, elems |-> <<>>, entries |-> entries]

Entry(key, value) == [key |-> key, value |-> value]

\* the keys of the filters: field names, operators, names of no field and
\* dotted paths into the embedded document and the list of them
QueryKeys ==
    {<<"name">>, <<"age">>, <<"part">>, <<"tags">>, <<"size">>, <<"other">>, <<"$or">>,
     <<"part", "name">>, <<"part", "size">>, <<"parts", "name">>,
     <<"parts", "0", "name">>, <<"part", "$exists">>}

RECURSIVE Queries(_)
\* the queries nested depth deep at most; the keys of one dict map to
\* different storage keys
Queries(depth) ==
    IF depth = 0 THEN {Scalar(1)}
    ELSE Queries(depth - 1)
         \cup {List(<<q>>) : q \in Queries(depth - 1)}
         \cup {Dict({Entry(k, q)}) : k \in QueryKeys, q \in Queries(depth - 1)}
         \cup {Dict({Entry(<<"name">>, q), Entry(<<"part", "name">>, Scalar(1))}) :
                q \in Queries(depth - 1)}

\* a map_entry that keeps looking in the fields of the document
map_entry_fields_flat(entry, fields) ==
    [entry |-> IF entry \in DOMAIN QuerySchema(fields)
                  /\ QuerySchema(fields)[entry].attribute # NoAttr
               THEN QuerySchema(fields)[entry].attribute
               ELSE entry,
     fields |-> fields]

\* map_entry of the query mapper: the mapped entry and the fields the
\* entries below it are looked up in
map_entry_fields(entry, fields) ==
    IF entry \notin DOMAIN QuerySchema(fields) THEN [entry |-> entry, fields |-> fields]
    ELSE LET field == QuerySchema(fields)[entry]
         IN  [entry |-> IF field.attribute # NoAttr THEN field.attribute ELSE entry,
              fields |-> IF field.kind = "list" /\ field.container = "embedded"
                         THEN field.embedded_document_cls
                         ELSE IF field.kind = "embedded" THEN field.embedded_document_cls
                         ELSE fields]

RECURSIVE map_entry_with_dots(_, _)
\* map_entry_with_dots on the segments of an entry
map_entry_with_dots(entry, fields) ==
    IF entry = <<>> THEN [entry |-> <<>>, fields |-> fields]
    ELSE LET first == map_entry_fields(Head(entry), fields)
             rest == map_entry_with_dots(Tail(entry), first.fields)
         IN  [entry |-> <<first.entry>> \o rest.entry, fields |-> rest.fields]

RECURSIVE map_query_nested(_, _)
\* map_query of the query mapper on a query of any shape
map_query_nested(query, fields) ==
    CASE query.kind = "dict" ->
            Dict({Entry(map_entry_with_dots(e.key, fields).entry,
                        map_query_nested(e.value, map_entry_with_dots(e.key, fields).fields)) :
                    e \in query.entries})
      [] query.kind = "list" ->
            List([i \in 1 .. Len(query.elems) |-> map_query_nested(query.elems[i], fields)])
      [] OTHER -> query

\* a filter of the caller, before it is mapped
InitQuery ==
    /\ adapter = "pymongo"
    /\ cls = BASE_DOCUMENT_CLS
    /\ data \in Queries(MaxQueryDepth)
    /\ modified = {}
    /\ not_loaded = {}
    /\ additional_data = EmptyMap
    /\ is_created = FALSE
    /\ collection = {}
    /\ instance = NoInstance
    /\ last = NoLast
    /\ steps = 0

\* map_query(filter, doc_cls.schema.fields) on the filter of the caller
MapQuery ==
    /\ steps = 0
    /\ steps' = 1
    /\ last' = [result |-> map_query_nested(data, "Doc")]
                @@ LastOn("map_query", "ok", "none", {})
    /\ UNCHANGED <<adapter, cls, data, modified, not_loaded, additional_data, is_created,
                   collection, instance>>

NextQuery == MapQuery

SpecQuery == InitQuery /\ [][NextQuery]_vars

-----------------------------------------------------------------------------
(* C23: what map_query rewrites *)

\* the segment is an operator: it starts with the reserved marker
IsOperator(segment) == segment \in {"$or", "$exists"}

RECURSIVE SchemaBelow(_, _)
\* the schema the keys below the path are fields of: that of the last
\* embedded document, or list of embedded documents, on the path
SchemaBelow(path, schema) ==
    IF path = <<>> THEN schema
    ELSE LET above == SchemaBelow(SubSeq(path, 1, Len(path) - 1), schema)
             segment == path[Len(path)]
         IN  IF /\ segment \in DOMAIN QuerySchema(above)
                /\ QuerySchema(above)[segment].embedded_document_cls # ""
             THEN QuerySchema(above)[segment].embedded_document_cls
             ELSE above

\* the key the claim has for path: each segment that names a field is
\* replaced by the storage key of the field, operators and other segments
\* are kept
StorageKey(path, schema) ==
    [i \in 1 .. Len(path) |->
        LET fields == QuerySchema(SchemaBelow(SubSeq(path, 1, i - 1), schema))
        IN  IF IsOperator(path[i]) \/ path[i] \notin DOMAIN fields THEN path[i]
            ELSE IF fields[path[i]].attribute = NoAttr THEN path[i]
            ELSE fields[path[i]].attribute]

RECURSIVE Rewritten(_, _, _)
\* result is query with the keys rewritten and everything else unchanged
Rewritten(query, result, schema) ==
    /\ result.kind = query.kind
    /\ result.v = query.v
    /\ Len(result.elems) = Len(query.elems)
    /\ \A i \in 1 .. Len(query.elems) : Rewritten(query.elems[i], result.elems[i], schema)
    /\ Cardinality(result.entries) = Cardinality(query.entries)
    /\ \A e \in query.entries :
        \E f \in result.entries :
            /\ f.key = StorageKey(e.key, schema)
            /\ Rewritten(e.value, f.value, SchemaBelow(e.key, schema))

\* C23: map_query replaces every field name used as a key of the filter,
\* each segment of a dotted path into an embedded document or a list of
\* them included, by the storage key of the field, and leaves operators,
\* keys that name no field, scalars and the shape of lists and dicts
\* unchanged.
C23_KeysRewritten ==
    last.op = "map_query" => Rewritten(data, last.result, "Doc")

\* a filter on a path into the list of embedded documents, under an
\* operator, was mapped to the storage key of the field of Part
C23_DottedPathMapped ==
    /\ last.op = "map_query"
    /\ data = Dict({Entry(<<"$or">>, List(<<Dict({Entry(<<"part", "name">>, Scalar(1))})>>))})
    /\ last.result
        = Dict({Entry(<<"$or">>, List(<<Dict({Entry(<<"p", "pn">>, Scalar(1))})>>))})

-----------------------------------------------------------------------------
(* None and allow_none *)

\* the proxy holding d writes None under key and reads it back as None
WrittenAndReadAsNone(d, key) ==
    LET mongo_data == _to_mongo(cls, d)
    IN  /\ key \in DOMAIN mongo_data
        /\ mongo_data[key] = None
        /\ from_mongo(cls, d, {}, {}, EmptyMap, mongo_data, TRUE, {}).data[key] = None

\* r is the refusal of None: a ValidationError that left the values as they were
RefusedNone(r) == r.outcome = "ValidationError" /\ r.data = data

\* r took None for the field stored under key
AcceptedNone(r, key) ==
    /\ r.outcome = "ok"
    /\ r.data[key] = None
    /\ WrittenAndReadAsNone(r.data, key)

\* C24: for a field with allow_none=false, loading, updating or setting None
\* fails with a ValidationError and leaves the stored values unchanged; for
\* a field with allow_none=true None is accepted, is written to storage as
\* None and is read back from storage as None.
C24_NoneByAllowNone ==
    last.outcome # "UnknownFieldInDBError" => \A name \in LoadableNames(cls) :
        LET key == MongoName(cls, name)
            s == set(cls, data, modified, not_loaded, name, None, "KeyError")
            u == update(cls, data, modified, not_loaded, (name :> None))
            l == load(cls, data, modified, not_loaded, (name :> None), TRUE)
            f == load(cls, data, modified, not_loaded, (name :> None), FALSE)
        IN  IF SchemaFields(cls)[name].allow_none
            THEN /\ name \notin not_loaded => AcceptedNone(s, key)
                 /\ AcceptedNone(u, key)
                 /\ AcceptedNone(l, key)
                 /\ AcceptedNone(f, key)
            ELSE /\ name \notin not_loaded => RefusedNone(s)
                 /\ RefusedNone(u)
                 /\ RefusedNone(l)
                 /\ RefusedNone(f)

\* None was set on the field that allows it, written, and read back as None
C24_NoneStoredAndReadBack ==
    /\ cls.name = "Nullable"
    /\ last.op = "from_mongo"
    /\ last.outcome = "ok"
    /\ "nick" \in DOMAIN last.raw
    /\ last.raw["nick"] = None
    /\ data["nick"] = None
    /\ data["c"] # None

-----------------------------------------------------------------------------
(* The indexes of the unique fields *)

\* the combinations of the flags of a field
Flags == [required : BOOLEAN, unique : BOOLEAN, allow_none : BOOLEAN]

FlaggedField(flags) ==
    [BaseField(NoAttr, flags.required, flags.unique, FALSE, Missing, FALSE)
        EXCEPT !.allow_none = flags.allow_none]

\* a template, child of a concrete document or not, declaring two fields
InitIndexes ==
    /\ adapter = "pymongo"
    /\ cls = BASE_DOCUMENT_CLS
    /\ data \in {[template |-> t,
                  nmspc |-> ("nick" :> FlaggedField(a)) @@ ("code" :> FlaggedField(b))] :
                    t \in {"Doc", "Child"}, a \in Flags, b \in Flags}
    /\ modified = {}
    /\ not_loaded = {}
    /\ additional_data = EmptyMap
    /\ is_created = FALSE
    /\ collection = {}
    /\ instance = NoInstance
    /\ last = NoLast
    /\ steps = 0

\* _collect_indexes(meta, schema_nmspc, bases) of the builder on the template
CollectIndexes ==
    /\ steps = 0
    /\ steps' = 1
    /\ last' = [indexes |-> _collect_indexes(data.template, data.nmspc)]
                @@ LastOn("_collect_indexes", "ok", "none", DOMAIN data.nmspc)
    /\ UNCHANGED <<adapter, cls, data, modified, not_loaded, additional_data, is_created,
                   collection, instance>>

NextIndexes == CollectIndexes

SpecIndexes == InitIndexes /\ [][NextIndexes]_vars

\* the index options the table in the documentation of BaseField gives for
\* the flags of a unique field
TabulatedIndex(field) == [unique |-> TRUE, sparse |-> ~field.required]

\* the options of the indexes derived on the field
DerivedIndexes(indexes, name) ==
    {[unique |-> indexes[i].unique, sparse |-> indexes[i].sparse] :
        i \in {j \in DOMAIN indexes : indexes[j].key[1] = name}}

\* C25: for each combination of the flags required, unique and allow_none of
\* a field the builder derives the index tabulated in the documentation of
\* BaseField: none when unique is off, a unique index that is not sparse when
\* the field is unique and required, with allow_none or without, and a
\* unique sparse index when it is unique and not required.
C25_TabulatedIndexes ==
    last.op = "_collect_indexes" =>
        \A name \in DOMAIN data.nmspc :
            DerivedIndexes(last.indexes, name)
                = IF data.nmspc[name].unique THEN {TabulatedIndex(data.nmspc[name])} ELSE {}

-----------------------------------------------------------------------------
(* References *)

\* the None a reference holds, and find_one returns, in place of a document
NoDocument == EmptyMap

\* Reference(document_cls, pk): nothing is fetched at construction
Reference(document_cls, id) ==
    [document_cls |-> document_cls, pk |-> id, _document |-> NoDocument]

\* the documents of the collection of the referenced class: one at most by _id
Stores ==
    {{("_id" :> i) @@ ("name" :> held[i]) : i \in {j \in Ids : held[j] # Missing}} :
        held \in [Ids -> Values \cup {Missing}]}

\* document_cls.find_one(pk): the stored document with this _id, or None
find_one_pk(coll, id) ==
    IF \E doc \in coll : doc["_id"] = id
    THEN CHOOSE doc \in coll : doc["_id"] = id
    ELSE NoDocument

\* what a fetch gives: its outcome, the reference, the document returned and
\* whether the store was queried
Fetched(outcome, ref, result, queried) ==
    [outcome |-> outcome, ref |-> ref, result |-> result, queried |-> queried]

\* a fetch that never uses the document it holds
fetch_uncached(ref, coll, force_reload) ==
    IF ref.pk = None THEN Fetched("ReferenceError", ref, NoDocument, FALSE)
    ELSE LET found == find_one_pk(coll, ref.pk)
             held == [ref EXCEPT !._document = found]
         IN  IF found = NoDocument
             THEN Fetched("ValidationError", held, NoDocument, TRUE)
             ELSE Fetched("ok", held, found, TRUE)

fetch(ref, coll, force_reload) ==
    IF ref._document # NoDocument /\ ~force_reload
    THEN Fetched("ok", ref, ref._document, FALSE)
    ELSE IF ref.pk = None THEN Fetched("ReferenceError", ref, NoDocument, FALSE)
    ELSE LET found == find_one_pk(coll, ref.pk)
             held == [ref EXCEPT !._document = found]
         IN  IF found = NoDocument
             THEN Fetched("ValidationError", held, NoDocument, TRUE)
             ELSE Fetched("ok", held, found, TRUE)

\* a reference to a document of Doc, by a primary key or by None, next to a
\* store; instance counts the queries of the store
InitReference ==
    /\ adapter \in Adapters
    /\ cls = BASE_DOCUMENT_CLS
    /\ data \in {Reference("Doc", id) : id \in Ids \cup {None}}
    /\ modified = {}
    /\ not_loaded = {}
    /\ additional_data = EmptyMap
    /\ is_created = FALSE
    /\ collection \in Stores
    /\ instance = [queries |-> 0]
    /\ last = NoLast
    /\ steps = 0

StepReference == steps < MaxReferenceSteps /\ steps' = steps + 1

\* PyMongoReference.fetch, MotorAsyncIOReference.fetch, TxMongoReference.fetch
Fetch ==
    /\ StepReference
    /\ \E force_reload \in BOOLEAN :
        LET r == fetch(data, collection, force_reload)
        IN  /\ data' = r.ref
            /\ instance' = [queries |-> instance.queries + IF r.queried THEN 1 ELSE 0]
            /\ last' = [result |-> r.result] @@
                       LastOn("fetch", r.outcome,
                              IF force_reload THEN "force_reload" ELSE "none", {})
    /\ UNCHANGED <<adapter, cls, modified, not_loaded, additional_data, is_created, collection>>

\* another writer replaces, inserts or removes a document of the store
StoreWrite ==
    /\ StepReference
    /\ collection' \in {coll \in Stores :
                          \E i \in Ids : \A doc \in coll \cup collection :
                              doc["_id"] # i => (doc \in coll /\ doc \in collection)}
    /\ collection' # collection
    /\ last' = LastOn("store", "ok", "none", {})
    /\ UNCHANGED <<adapter, cls, data, modified, not_loaded, additional_data, is_created,
                   instance>>

NextReference == Fetch \/ StoreWrite

SpecReference == InitReference /\ [][NextReference]_vars

\* C26: a reference queries the store on fetch only, and only when it holds
\* no document or force_reload is given; a fetch that finds the target
\* returns it and keeps it, a later fetch without force_reload returns the
\* document kept without a query, a fetch of a reference whose pk is None
\* raises ReferenceError, and a fetch whose target is not in the store
\* raises ValidationError and leaves no document in the reference.
C26_LazyAndCached ==
    [][IF last'.op # "fetch"
       THEN instance'.queries = instance.queries /\ data' = data
       ELSE IF data._document # NoDocument /\ last'.branch # "force_reload"
       THEN /\ last'.outcome = "ok"
            /\ last'.result = data._document
            /\ instance'.queries = instance.queries
            /\ data' = data
       ELSE IF data.pk = None
       THEN /\ last'.outcome = "ReferenceError"
            /\ instance'.queries = instance.queries
            /\ data' = data
       ELSE IF \E doc \in collection : doc["_id"] = data.pk
       THEN /\ last'.outcome = "ok"
            /\ last'.result \in collection
            /\ last'.result["_id"] = data.pk
            /\ data'._document = last'.result
            /\ instance'.queries = instance.queries + 1
       ELSE /\ last'.outcome = "ValidationError"
            /\ data'._document = NoDocument
            /\ instance'.queries = instance.queries + 1]_vars

\* a document was fetched, the store then changed it, and a fetch without
\* force_reload returned the document kept, without a second query
C26_CachedAfterStoreChange ==
    /\ steps = 3
    /\ last.op = "fetch"
    /\ last.branch = "none"
    /\ last.outcome = "ok"
    /\ instance.queries = 1
    /\ last.result = data._document
    /\ last.result \notin collection

-----------------------------------------------------------------------------
(* C27: the three adapters *)

\* what a commit or a delete shows of itself: the calls it made in their
\* order, its outcome, and the markers it left
Protocol(r) ==
    [log |-> r.log, outcome |-> r.outcome, is_created |-> r.is_created,
     modified |-> r.modified]

\* C27: for the same document, hook results, validator results and answers
\* of the store, commit and delete of the three adapters make the same calls
\* in the same order, end with the same outcome and leave the same
\* is_created and modified markers.
C27_AdaptersAgree ==
    \A a \in Adapters :
        /\ \A in \in CommitInputs :
            Protocol(commit(a, cls, data, modified, not_loaded, is_created, collection, in))
                = Protocol(commit(adapter, cls, data, modified, not_loaded, is_created,
                                  collection, in))
        /\ \A in \in DeleteInputs :
            Protocol(delete(a, cls, data, modified, not_loaded, is_created, collection, in))
                = Protocol(delete(adapter, cls, data, modified, not_loaded, is_created,
                                  collection, in))

-----------------------------------------------------------------------------
(* C28: every storage key has a value *)

\* C28: after a load or a from_mongo that succeeded, partial or not, and
\* after any set, delete or update that follows, the values of the data
\* proxy have an entry for every storage key of the schema, and a field
\* that the input of the load or from_mongo did not give holds its default.
C28_EveryKeyHeld ==
    last.outcome # "UnknownFieldInDBError" =>
        /\ DOMAIN data = MongoKeys(cls)
        /\ (last.op \in {"load", "from_mongo"} /\ last.outcome = "ok") =>
            \A n \in FieldNames(cls) \ last.names :
                data[MongoName(cls, n)] = SchemaFields(cls)[n].missing

\* a partial from_mongo of a document with its _id alone left the default
\* of age and no value for name
C28_DefaultsAfterPartialRead ==
    /\ cls.name = "Doc"
    /\ last.op = "from_mongo"
    /\ last.branch = "partial"
    /\ last.outcome = "ok"
    /\ last.names = {"id"}
    /\ not_loaded = {"name", "age"}
    /\ data["age"] = 0
    /\ data["name"] = Missing

-----------------------------------------------------------------------------
(* Data proxies holding data objects: lists and embedded documents *)

\* the values a data proxy holds: missing, a plain value, a List with its
\* _modified flag, or an embedded document with the values and the modified
\* set of its own data proxy
MissingValue ==
    [kind |-> "missing", v |-> Missing, _modified |-> FALSE, elems |-> <<>>,
     data |-> EmptyMap, modified |-> {}]

PlainValue(v) ==
    [kind |-> "plain", v |-> v, _modified |-> FALSE, elems |-> <<>>,
     data |-> EmptyMap, modified |-> {}]

ListObject(elems, flag) ==
    [kind |-> "list", v |-> 0, _modified |-> flag, elems |-> elems,
     data |-> EmptyMap, modified |-> {}]

EmbeddedObject(d, m) ==
    [kind |-> "embedded", v |-> 0, _modified |-> FALSE, elems |-> <<>>,
     data |-> d, modified |-> m]

\* isinstance(value, BaseDataObject)
IsDataObject(value) == value.kind \in {"list", "embedded"}

NestedKey(schema, name) == AttrOrName(QuerySchema(schema)[name], name)

NestedKeys(schema) == {NestedKey(schema, n) : n \in DOMAIN QuerySchema(schema)}

RECURSIVE DataProxy_is_modified(_, _)
RECURSIVE DataObject_is_modified(_)
RECURSIVE DataProxy_clear_modified(_)
RECURSIVE DataObject_clear_modified(_)
RECURSIVE DataObject_to_mongo(_)

\* List.is_modified
List_is_modified(list) ==
    IF list._modified THEN TRUE
    ELSE IF Len(list.elems) > 0 /\ IsDataObject(list.elems[1])
    THEN \E i \in DOMAIN list.elems : DataObject_is_modified(list.elems[i])
    ELSE FALSE

\* is_modified of a List or of an embedded document
DataObject_is_modified(value) ==
    IF value.kind = "list" THEN List_is_modified(value)
    ELSE DataProxy_is_modified(value.data, value.modified)

\* BaseDataProxy.is_modified
DataProxy_is_modified(d, m) ==
    \/ m # {}
    \/ \E k \in DOMAIN d : IsDataObject(d[k]) /\ DataObject_is_modified(d[k])

\* List.clear_modified that clears its own flag only
List_clear_modified_own(list) == [list EXCEPT !._modified = FALSE]

\* List.clear_modified
List_clear_modified(list) ==
    IF Len(list.elems) > 0 /\ IsDataObject(list.elems[1])
    THEN [list EXCEPT !._modified = FALSE,
                      !.elems = [i \in DOMAIN list.elems |->
                                    DataObject_clear_modified(list.elems[i])]]
    ELSE [list EXCEPT !._modified = FALSE]

\* clear_modified of a List or of an embedded document
DataObject_clear_modified(value) ==
    IF value.kind = "list" THEN List_clear_modified(value)
    ELSE [value EXCEPT !.data = DataProxy_clear_modified(value.data), !.modified = {}]

\* BaseDataProxy.clear_modified: the values it leaves, its modified set being emptied
DataProxy_clear_modified(d) ==
    [k \in DOMAIN d |-> IF IsDataObject(d[k]) THEN DataObject_clear_modified(d[k]) ELSE d[k]]

\* get_modified_fields that looks at the modified set only
DataProxy_get_modified_fields_own(schema, d, m) ==
    {n \in DOMAIN QuerySchema(schema) : NestedKey(schema, n) \in m}

\* BaseDataProxy.get_modified_fields
DataProxy_get_modified_fields(schema, d, m) ==
    {n \in DOMAIN QuerySchema(schema) :
        \/ NestedKey(schema, n) \in m
        \/ /\ IsDataObject(d[NestedKey(schema, n)])
           /\ DataObject_is_modified(d[NestedKey(schema, n)])}

\* field.serialize_to_mongo(value): what is written for the value, a List
\* as the list of what is written for its elements, an embedded document as
\* its to_mongo(), the keys with a value
DataObject_to_mongo(value) ==
    CASE value.kind = "list" ->
            ListObject([i \in DOMAIN value.elems |-> DataObject_to_mongo(value.elems[i])],
                       FALSE)
      [] value.kind = "embedded" ->
            EmbeddedObject(
                [k \in {j \in DOMAIN value.data : value.data[j].kind # "missing"} |->
                    DataObject_to_mongo(value.data[k])],
                {})
      [] OTHER -> value

\* BaseDataProxy._to_mongo_update
DataProxy_to_mongo_update(schema, d, m) ==
    LET names == {NestedKey(schema, n) : n \in DataProxy_get_modified_fields(schema, d, m)}
        v == [k \in names |-> DataObject_to_mongo(d[k])]
        unset_data == {k \in names : v[k].kind = "missing"}
        set_data == Restrict(v, names \ unset_data)
    IN  IF set_data = EmptyMap /\ unset_data = {} THEN NonePayload
        ELSE [kind |-> "update", set |-> set_data, unset |-> unset_data]

\* List.append, and the other calls that change a List, with set_modified
List_append(list, obj) == [list EXCEPT !.elems = Append(@, obj), !._modified = TRUE]

List_clear(list) == [list EXCEPT !.elems = <<>>, !._modified = TRUE]

\* DataProxy.set on the proxy of an embedded document
EmbeddedDocument_set(value, key, obj) ==
    [value EXCEPT !.data[key] = obj, !.modified = @ \cup {key}]

\* an embedded document Part as built from values: load marks what it is given
NewPart == EmbeddedObject(("pn" :> MissingValue) @@ ("size" :> PlainValue(1)), {"size"})

\* an embedded document Part as read from the store
StoredPart == EmbeddedObject(("pn" :> PlainValue(1)) @@ ("size" :> PlainValue(1)), {})

\* the documents read from the store by from_mongo: nothing is modified
StoredNested ==
    [n : {PlainValue(1)}, age : {PlainValue(1)},
     p : {MissingValue, StoredPart},
     parts : {MissingValue, ListObject(<<>>, FALSE), ListObject(<<StoredPart>>, FALSE),
              ListObject(<<StoredPart, StoredPart>>, FALSE)},
     t : {MissingValue, ListObject(<<PlainValue(1)>>, FALSE)}]

\* the values given to a field by set
SetValues(name) ==
    CASE name = "part" -> {NewPart}
      [] name = "parts" -> {ListObject(<<NewPart>>, FALSE)}
      [] name = "tags" -> {ListObject(<<>>, FALSE)}
      [] OTHER -> {PlainValue(2)}

InitNested ==
    /\ adapter = "pymongo"
    /\ cls = BASE_DOCUMENT_CLS
    /\ data \in StoredNested
    /\ modified = {}
    /\ not_loaded = {}
    /\ additional_data = EmptyMap
    /\ is_created = TRUE
    /\ collection = {}
    /\ instance = NoInstance
    /\ last = NoLast
    /\ steps = 0

StepNested == steps < MaxNestedSteps /\ steps' = steps + 1

\* the operation leaves d and m in the proxy of the document
LeavesNested(op, d, m) ==
    /\ data' = d
    /\ modified' = m
    /\ last' = LastOn(op, "ok", "none", {})
    /\ UNCHANGED <<adapter, cls, not_loaded, additional_data, is_created, collection, instance>>

\* doc.name = value: DataProxy.set
NestedSet ==
    /\ StepNested
    /\ \E name \in {"name", "part", "parts", "tags"} : \E value \in SetValues(name) :
        LeavesNested("set", [data EXCEPT ![NestedKey("Doc", name)] = value],
                     modified \cup {NestedKey("Doc", name)})

\* del doc.name: DataProxy.delete, the fields having no default
NestedDelete ==
    /\ StepNested
    /\ \E name \in {"part", "parts", "tags"} :
        LeavesNested("delete", [data EXCEPT ![NestedKey("Doc", name)] = MissingValue],
                     modified \cup {NestedKey("Doc", name)})

\* doc.tags.append(value), doc.parts.append(part)
ListAppend ==
    /\ StepNested
    /\ \E key \in {"t", "parts"} :
        /\ data[key].kind = "list"
        /\ Len(data[key].elems) < 2
        /\ LeavesNested("append",
                        [data EXCEPT ![key] = List_append(@, IF key = "t" THEN PlainValue(2)
                                                            ELSE NewPart)],
                        modified)

\* doc.tags.clear(), doc.parts.clear()
ListClear ==
    /\ StepNested
    /\ \E key \in {"t", "parts"} :
        /\ data[key].kind = "list"
        /\ LeavesNested("clear", [data EXCEPT ![key] = List_clear(@)], modified)

\* doc.part.size = value
EmbeddedSet ==
    /\ StepNested
    /\ data["p"].kind = "embedded"
    /\ LeavesNested("embedded_set",
                    [data EXCEPT !["p"] = EmbeddedDocument_set(@, "size", PlainValue(2))],
                    modified)

\* doc.parts[i].size = value
ElementSet ==
    /\ StepNested
    /\ data["parts"].kind = "list"
    /\ \E i \in DOMAIN data["parts"].elems :
        LeavesNested("element_set",
                     [data EXCEPT !["parts"].elems[i] =
                                        EmbeddedDocument_set(@, "size", PlainValue(2))],
                     modified)

\* doc.clear_modified(), as commit does after a write
ClearModified ==
    /\ StepNested
    /\ data' = DataProxy_clear_modified(data)
    /\ modified' = {}
    /\ last' = [own |-> modified] @@
               LastOn("clear_modified", "ok", "none",
                      DataProxy_get_modified_fields("Doc", data, modified))
    /\ UNCHANGED <<adapter, cls, not_loaded, additional_data, is_created, collection, instance>>

\* doc._data.to_mongo(update=True)
NestedToMongo ==
    /\ StepNested
    /\ last' = [payload |-> DataProxy_to_mongo_update("Doc", data, modified)] @@
               LastOn("to_mongo", "ok", "update", {})
    /\ UNCHANGED <<adapter, cls, data, modified, not_loaded, additional_data, is_created,
                   collection, instance>>

NextNested ==
    \/ NestedSet
    \/ NestedDelete
    \/ ListAppend
    \/ ListClear
    \/ EmbeddedSet
    \/ ElementSet
    \/ ClearModified
    \/ NestedToMongo

SpecNested == InitNested /\ [][NextNested]_vars

-----------------------------------------------------------------------------
(* C29 and C30: what is modified, directly or through a nested value *)

RECURSIVE Flagged(_)
\* some List in the value, the value included, has its flag raised, or some
\* embedded document in it has a key in its modified set
Flagged(value) ==
    CASE value.kind = "list" ->
            value._modified \/ \E i \in DOMAIN value.elems : Flagged(value.elems[i])
      [] value.kind = "embedded" ->
            value.modified # {} \/ \E k \in DOMAIN value.data : Flagged(value.data[k])
      [] OTHER -> FALSE

\* the storage keys modified directly or through the value they hold
Touched == {k \in NestedKeys("Doc") : k \in modified \/ Flagged(data[k])}

\* C29: to_mongo(update=True) gives a payload over the storage keys of the
\* fields modified directly or through a modified nested value and no
\* other: those whose value is missing are in the $unset part, the others
\* in the $set part with what is written for their value, and the payload
\* is None when there is no such key.
C29_UpdatePayloadKeys ==
    last.op = "to_mongo" =>
        IF Touched = {} THEN last.payload = NonePayload
        ELSE /\ last.payload.kind = "update"
             /\ last.payload.unset = {k \in Touched : data[k].kind = "missing"}
             /\ DOMAIN last.payload.set = Touched \ last.payload.unset
             /\ \A k \in DOMAIN last.payload.set :
                    last.payload.set[k] = DataObject_to_mongo(data[k])

\* tags was deleted and an element of parts changed: the payload unsets the
\* one and sets the other, which is not in the modified set
C29_NestedSetAndUnset ==
    /\ last.op = "to_mongo"
    /\ modified = {"t"}
    /\ last.payload.unset = {"t"}
    /\ DOMAIN last.payload.set = {"parts"}
    /\ ~data["parts"]._modified

\* C30: is_modified() of a data proxy is true exactly when its modified set
\* is not empty or a value it holds, a list or an embedded document at any
\* depth, is modified, and right after clear_modified() it is false and no
\* value it holds is modified.
C30_ModifiedThroughValues ==
    /\ DataProxy_is_modified(data, modified)
        <=> (modified # {} \/ \E k \in DOMAIN data : Flagged(data[k]))
    /\ last.op = "clear_modified" =>
        /\ ~DataProxy_is_modified(data, modified)
        /\ Touched = {}

\* clear_modified() on a document modified only through an element of its
\* list of embedded documents
C30_ClearedBelowList ==
    /\ last.op = "clear_modified"
    /\ last.own = {}
    /\ last.names = {"parts"}
    /\ ~DataProxy_is_modified(data, modified)
    /\ \E i \in DOMAIN data["parts"].elems : data["parts"].elems[i].data["size"].v = 2

-----------------------------------------------------------------------------
(* C31: what a local mutation leaves alone *)

\* C31: set and delete by name leave the not-loaded fields as they are, an
\* update that succeeds takes the fields it is given out of them and
\* nothing else, and none of the three takes a key out of the modified set;
\* apart from load, from_mongo and update no operation changes the
\* not-loaded fields.
C31_MutationFrame ==
    [][/\ last'.op \notin {"load", "from_mongo", "update"} => not_loaded' = not_loaded
       /\ last'.op = "update" =>
            not_loaded' = IF last'.outcome = "ok" THEN not_loaded \ last'.names
                          ELSE not_loaded
       /\ last'.op \in {"set", "delete", "update"} => modified \subseteq modified']_vars

\* an update of age alone on a proxy read without name and age: name is
\* still not loaded, age is
C31_UpdateLoadsItsFields ==
    /\ cls.name = "Doc"
    /\ last.op = "update"
    /\ last.outcome = "ok"
    /\ last.names = {"age"}
    /\ not_loaded = {"name"}
    /\ "age" \in modified

\* C31 as stated: set, delete and update leave the not-loaded fields as
\* they are and take no key out of the modified set
C31_MutationKeepsNotLoaded ==
    [][last'.op \in {"set", "delete", "update"} =>
        (not_loaded' = not_loaded /\ modified \subseteq modified')]_vars


-----------------------------------------------------------------------------
(* C32: set and delete by logical name *)

\* the one name a set or a delete was called with
Accessed(l) == CHOOSE name \in l.names : TRUE

\* C32: on a loaded field, a set stores the validated value it was given under
\* the field's storage key and marks that key modified, and a delete resets
\* the value to the field's default and marks the key modified, and where the
\* field has no default the next update payload unsets the key; on a field
\* that a partial load left out both raise FieldNotLoadedError, and on a name
\* that is no field of the schema both raise the error the caller chose
C32_SetAndDelete ==
    [][last'.op \in {"set", "delete"} =>
        LET name == Accessed(last')
            key == MongoName(cls, name)
        IN  IF name \notin FieldNames(cls)
            THEN /\ last'.outcome = last'.branch
                 /\ last'.branch \in {"KeyError", "AttributeError"}
            ELSE IF name \in not_loaded
            THEN last'.outcome = "FieldNotLoadedError"
            ELSE IF last'.op = "set"
            THEN /\ last'.outcome \in {"ok", "ValidationError"}
                 /\ last'.outcome = "ok" =>
                     /\ data' = [data EXCEPT ![key] = last'.raw[name]]
                     /\ last'.raw[name] # None \/ SchemaFields(cls)[name].allow_none
                     /\ modified' = modified \cup {key}
            ELSE /\ last'.outcome = "ok"
                 /\ data' = [data EXCEPT ![key] = SchemaFields(cls)[name].default]
                 /\ modified' = modified \cup {key}
                 /\ SchemaFields(cls)[name].default = Missing =>
                        key \in _to_mongo_update(cls, data', modified').unset]_vars

\* a delete of a loaded field without default, a set of another field behind
\* it: the key deleted is unset by the update payload
C32_DeletedThenUnset ==
    /\ cls.name = "Renamed"
    /\ last.op = "delete"
    /\ last.outcome = "ok"
    /\ last.names = {"name"}
    /\ not_loaded = {}
    /\ data[MongoName(cls, "name")] = Missing
    /\ MongoName(cls, "name") \in modified
    /\ MongoName(cls, "name") \in _to_mongo_update(cls, data, modified).unset


-----------------------------------------------------------------------------
(* C33: what the builder gives a child document *)

\* the document classes above the i-th class built, the root class left out
DocumentAncestorsOf(inst, i) ==
    {a \in getmro(inst, i) \ {i, 1} : inst.built[a].kind = "document"}

\* every document class built is a child exactly when a class above it is not
\* abstract; a child has the field cls stored under _cls, dump_only, with the
\* name of the class as default, and any other class has no such field
ChildStructure ==
    \A i \in 3 .. Len(instance.built) :
        LET impl == instance.built[i]
        IN  impl.kind = "document" =>
            /\ impl.opts.is_child <=>
                    \E a \in DocumentAncestorsOf(instance, i) : ~instance.built[a].opts.abstract
            /\ IF impl.opts.is_child
               THEN /\ "cls" \in DOMAIN impl.schema
                    /\ impl.schema["cls"] =
                            BaseField("_cls", FALSE, FALSE, TRUE, ClassName(impl.name), FALSE)
               ELSE \A n \in DOMAIN impl.schema :
                        n # "cls" /\ AttrOrName(impl.schema[n], n) # "_cls"

\* the indexes of the document classes: a child has an index on _cls and an
\* index ending in _cls for each unique field, any other class has no index
\* with _cls in its key
ChildIndexes ==
    \A c \in Implementations :
        IF _is_child(c.name)
        THEN /\ \E i \in 1 .. Len(c.indexes) : c.indexes[i].key = <<"_cls">>
             /\ \A n \in DOMAIN c.schema :
                    c.schema[n].unique =>
                        \E i \in 1 .. Len(c.indexes) : c.indexes[i].key = <<n, "_cls">>
        ELSE \A i \in 1 .. Len(c.indexes) :
                \A k \in 1 .. Len(c.indexes[i].key) : c.indexes[i].key[k] # "_cls"

\* C33: the discriminator of a child class has the name of the class as its
\* default, so that every payload a document of the class is inserted with
\* carries _cls = class name: whatever the application wrote to the document,
\* the full payload holds the name of the class under _cls
C33_PayloadCarriesClassName ==
    [][(/\ "cls" \in FieldNames(cls)
        /\ "_cls" \in DOMAIN _to_mongo(cls, data)
        /\ _to_mongo(cls, data)["_cls"] = ClassName(cls.name)
        /\ last'.op \in UserWrites
        /\ last'.outcome = "ok")
       => /\ "_cls" \in DOMAIN _to_mongo(cls, data')
          /\ _to_mongo(cls, data')["_cls"] = ClassName(cls.name)]_vars


-----------------------------------------------------------------------------
(* C35: the filter of an update and of a delete *)

\* the filter holds _id = pk of the document, and matches no other document
ConstrainsPk(query) ==
    /\ "_id" \in DOMAIN query
    /\ query["_id"] = pk(data)
    /\ \A o \in Matching(collection, query) : o["_id"] = pk(data)

\* C35: the filter commit gives to update_one and the filter delete gives to
\* delete_one hold _id = pk of the document, whatever the conditions of the
\* caller and the filter returned by pre_update or pre_delete, so that
\* neither matches a document other than its own
C35_FilterConstrainsPk ==
    FieldFromMongoKey(cls, "_id") \notin not_loaded =>
        /\ \A in \in CommitInputs :
            LET r == CommitRun(in)
            IN  Count(r.log, "update_one") = 1 => ConstrainsPk(r.query)
        /\ \A in \in DeleteInputs :
            LET r == DeleteRun(in)
            IN  Count(r.log, "delete_one") = 1 => ConstrainsPk(r.query)


-----------------------------------------------------------------------------
(* C34: dirty tracking and the store *)

\* to_mongo(update=False) of the data proxy: every value that is not missing
DataProxy_to_mongo_full(d) ==
    [k \in {j \in DOMAIN d : d[j].kind # "missing"} |-> DataObject_to_mongo(d[k])]

\* list.insert, which List inherits from list: the flag is left as it is
List_insert(list, obj) == [list EXCEPT !.elems = <<obj>> \o @]

\* what a hook of commit does to the document: nothing, or doc.name = 2
Hooks == {"none", "set"}

Hooked(hook, d) == IF hook = "set" THEN [d EXCEPT !["n"] = PlainValue(2)] ELSE d

HookedModified(hook, m) == IF hook = "set" THEN m \cup {"n"} ELSE m

\* commit of a created document whose validations pass and whose update
\* matches: nothing when the document is not modified, else pre_update, the
\* update of the stored document with the payload, post_update; then
\* clear_modified
NestedCommitted(d, m, coll, pre, post) ==
    IF ~DataProxy_is_modified(d, m)
    THEN [data |-> DataProxy_clear_modified(d), collection |-> coll, branch |-> "none"]
    ELSE LET payload == DataProxy_to_mongo_update("Doc", Hooked(pre, d),
                                                  HookedModified(pre, m))
         IN  [data |-> DataProxy_clear_modified(Hooked(post, Hooked(pre, d))),
              collection |-> {ApplyUpdate(o, payload) : o \in coll},
              branch |-> "update"]

\* a document read from the store, the store holding it
InitTracking ==
    /\ adapter = "pymongo"
    /\ cls = BASE_DOCUMENT_CLS
    /\ data \in StoredNested
    /\ modified = {}
    /\ not_loaded = {}
    /\ additional_data = EmptyMap
    /\ is_created = TRUE
    /\ collection = {DataProxy_to_mongo_full(data)}
    /\ instance = NoInstance
    /\ last = NoLast
    /\ steps = 0

\* doc.tags.insert(0, value), doc.parts.insert(0, part)
ListInsert ==
    /\ StepNested
    /\ \E key \in {"t", "parts"} :
        /\ data[key].kind = "list"
        /\ Len(data[key].elems) < 2
        /\ LeavesNested("insert",
                        [data EXCEPT ![key] = List_insert(@, IF key = "t" THEN PlainValue(2)
                                                            ELSE NewPart)],
                        modified)

\* doc.commit()
NestedCommit ==
    /\ StepNested
    /\ \E pre \in Hooks : \E post \in Hooks :
        LET r == NestedCommitted(data, modified, collection, pre, post)
        IN  /\ data' = r.data
            /\ modified' = {}
            /\ collection' = r.collection
            /\ last' = [LastOn("commit", "ok", r.branch, {}) EXCEPT !.raw = "post" :> post]
    /\ UNCHANGED <<adapter, cls, not_loaded, additional_data, is_created, instance>>

NextTracking ==
    \/ NestedSet
    \/ NestedDelete
    \/ ListAppend
    \/ ListClear
    \/ ListInsert
    \/ EmbeddedSet
    \/ ElementSet
    \/ NestedCommit

SpecTracking == InitTracking /\ [][NextTracking]_vars

\* C34: for a created document whose loads and commits succeeded and that
\* has no other writer, whenever is_modified() is false the full payload
\* to_mongo() is the document held by the store: no change made by set,
\* delete, a mutation of a list or a hook of commit is lost
C34_NoChangeLost ==
    ~DataProxy_is_modified(data, modified) => collection = {DataProxy_to_mongo_full(data)}


-----------------------------------------------------------------------------
(* C37: the proxy after an operation that raised *)

\* C37: an operation of the data proxy that raises ValidationError,
\* UnknownFieldInDBError or FieldNotLoadedError leaves the values, the
\* modified set and the not-loaded set as they were before the call
C37_RaisingLeavesProxy ==
    [][last'.outcome \in {"ValidationError", "UnknownFieldInDBError", "FieldNotLoadedError"}
       => /\ data' = data
          /\ modified' = modified
          /\ not_loaded' = not_loaded]_vars


-----------------------------------------------------------------------------
(* C36: the three views of a modified proxy *)

\* get_modified_fields reads the value held for every field of the schema:
\* KeyError when a storage key has no entry
get_modified_fields_outcome(t, d) ==
    IF \E n \in FieldNames(t) : MongoName(t, n) \notin DOMAIN d THEN "KeyError" ELSE "ok"

\* C36: in every state of a data proxy, is_modified() is true exactly when
\* get_modified_fields() returns a set that is not empty and exactly when
\* to_mongo(update=True) returns a payload that is not None
C36_ModifiedViewsAgree ==
    /\ is_modified(data, modified) <=>
            /\ get_modified_fields_outcome(cls, data) = "ok"
            /\ get_modified_fields(cls, data, modified) # {}
    /\ is_modified(data, modified) <=>
            /\ get_modified_fields_outcome(cls, data) = "ok"
            /\ _to_mongo_update(cls, data, modified) # NonePayload

\* the three views agree wherever every storage key has an entry
ModifiedViewsAgreeOnWholeData ==
    get_modified_fields_outcome(cls, data) = "ok" =>
        /\ is_modified(data, modified) <=> get_modified_fields(cls, data, modified) # {}
        /\ is_modified(data, modified) <=> _to_mongo_update(cls, data, modified) # NonePayload

\* the same of the document with lists and embedded documents
NestedViewsAgree ==
    /\ DataProxy_is_modified(data, modified) <=>
            DataProxy_get_modified_fields("Doc", data, modified) # {}
    /\ DataProxy_is_modified(data, modified) <=>
            DataProxy_to_mongo_update("Doc", data, modified) # NonePayload


-----------------------------------------------------------------------------
(* C38: the unknown keys after a second from_mongo *)

\* C38: on a class that is not strict, after from_mongo(raw) the unknown keys
\* the proxy holds are the keys of raw that no field maps to, with the values
\* of raw, and the full payload holds no other key besides those of the
\* fields: a key kept from an earlier from_mongo and absent from raw is gone
C38_UnknownKeysOfLastRead ==
    [][(last'.op = "from_mongo" /\ last'.outcome = "ok" /\ ~cls.strict) =>
        LET unknown == (DOMAIN last'.raw) \ MongoKeys(cls)
        IN  /\ additional_data' = Restrict(last'.raw, unknown)
            /\ (DOMAIN NonStrict_to_mongo(cls, data', additional_data')) \ MongoKeys(cls)
                    = unknown]_vars


-----------------------------------------------------------------------------
(* C39: the registry after a register that raised *)

\* C39: a register that raises AlreadyRegisteredDocumentError,
\* NotRegisteredDocumentError or DocumentDefinitionError leaves the lookups
\* of the instance, the builder's table from template to implementation and
\* the offspring of every implementation as they were
C39_FailedRegisterLeavesRegistry ==
    [][(last'.op = "register" /\ last'.outcome # "ok") =>
        /\ instance'.doc_lookup = instance.doc_lookup
        /\ instance'.embedded_lookup = instance.embedded_lookup
        /\ instance'.templates_lookup = instance.templates_lookup
        /\ \A i \in 1 .. Len(instance.built) :
            instance'.offspring[i] = instance.offspring[i]]_vars


-----------------------------------------------------------------------------
(* C40: the document after a delete, and after a commit *)

\* the commits of the document as it is, called without conditions
PlainCommits == {in \in CommitInputs : in.conditions = EmptyMap}

\* the calls of the store in the log of a commit
StorageCalls(r) == Count(r.log, "insert_one") + Count(r.log, "update_one")

\* C40: after a delete that succeeded the document is new again: is_created
\* is false, is_modified() is true, another delete raises NotCreatedError,
\* and the next commit goes the way of an insert, pre_insert, the validations,
\* insert_one with the full payload under the same _id, post_insert, to end
\* with is_created true; after a commit that succeeded, a second commit of
\* the document as it is calls the store for nothing
C40_NewAgainAfterDelete ==
    /\ (last.op = "delete" /\ last.outcome = "ok") =>
        /\ ~is_created
        /\ doc_is_modified(data, modified, is_created)
        /\ \A in \in DeleteInputs :
            /\ DeleteRun(in).outcome = "NotCreatedError"
            /\ DeleteRun(in).collection = collection
        /\ \A in \in PlainCommits :
            LET r == CommitRun(in)
            IN  /\ r.branch = "insert"
                /\ IsPrefix(StepsOf(r), InsertOrder)
                /\ Count(r.log, "insert_one") = 1 =>
                    /\ r.payload.set = _to_mongo(cls, data)
                    /\ r.payload.set["_id"] = pk(data)
                /\ r.outcome = "ok" =>
                    /\ StepsOf(r) = InsertOrder
                    /\ r.is_created
                    /\ pk(r.data) = pk(data)
                    /\ r.collection = collection \cup {r.payload.set}
    /\ (last.op = "commit" /\ last.outcome = "ok") =>
        /\ is_created
        /\ \A in \in CommitInputs :
            /\ StorageCalls(CommitRun(in)) = 0
            /\ CommitRun(in).outcome = "ok"
            /\ CommitRun(in).collection = collection

\* a document deleted from the store that its next commit inserts again
\* under the _id it had
C40_DeletedAndInsertable ==
    /\ last.op = "delete"
    /\ last.outcome = "ok"
    /\ modified = {}
    /\ \A o \in collection : o["_id"] # pk(data)
    /\ \E in \in PlainCommits :
        /\ CommitRun(in).outcome = "ok"
        /\ CommitRun(in).branch = "insert"
        /\ \E o \in CommitRun(in).collection : o["_id"] = pk(data)

=============================================================================
